---- MODULE Spec2Model ----
(***************************************************************************)
(* A model of the cuckatoo-mining core: the SipHash-2-4 edge oracle, the   *)
(* bitmap trimmers, the edge materializer, the hash-table cycle finders    *)
(* and the edge-list cycle verifier.  Every component is modelled from its *)
(* Rust source; each component has its own specification, in which the     *)
(* variables of the other components stay at their idle value.             *)
(***************************************************************************)
EXTENDS Integers, Sequences, FiniteSets, TLC

VARIABLES
    hcf,      \* the HashCycleFinder value: its four maps and root_node
    hcall,    \* the running HashCycleFinder::find_cycle call
    ccf,      \* the CppCycleFinder value
    ccall,    \* the running CppCycleFinder::get_cuckatoo_solution call
    ver,      \* the running CycleVerifier::verify_cycle call
    sip,      \* one evaluation of the three SipHash-2-4 node routines
    trim,     \* a trimmer (ExactTrimmer or BitmapTrimmer) and its trim_edges call
    cli,      \* an edge_bits validation routine, or the miner's main
    kdf,      \* two blake2b key derivations side by side
    lean,     \* a LeanTrimmer and its trim_edges call, run twice
    gen,      \* the running SipHash::hash_header call
    bmp       \* a Bitmap value

vars == <<bmp, hcf, hcall, ccf, ccall, ver, sip, trim, cli, kdf, lean, gen>>

(***************************************************************************)
(* Program constants.                                                      *)
(***************************************************************************)
SOLUTION_SIZE == 42
EDGE_NUMBER_OF_COMPONENTS == 3

(***************************************************************************)
(* Bounds of the model.                                                    *)
(***************************************************************************)
MaxNode == 2       \* small edge lists use the nodes 0..MaxNode
MaxEdges == 3      \* and hold at most MaxEdges edges
LongCycleLength == 44   \* the edges of the cycle that is longer than a solution

(***************************************************************************)
(* Helpers: hash maps as functions with a finite domain, u32/u64 bit       *)
(* operations on small values, sorting.                                    *)
(***************************************************************************)
EmptyMap == [x \in {} |-> 0]
MapInsert(m, k, val) == (k :> val) @@ m             \* k |-> val, else as m
MapRestrict(m, keys) == [x \in keys |-> m[x]]
\* a removal that removes nothing
MapRemoveNothing(m, k) == m
MapRemove(m, k) == MapRestrict(m, (DOMAIN m) \ {k})
ContainsKey(m, k) == k \in DOMAIN m

Xor1(n) == IF n % 2 = 0 THEN n + 1 ELSE n - 1      \* n ^ 1
Shr1(n) == n \div 2                                \* n >> 1

\* slice::sort of a u32 array
SortAsc(s) == SortSeq(s, LAMBDA a, b : a < b)

RECURSIVE MapValues(_, _)
MapValues(m, keys) ==
    IF keys = {} THEN <<>>
    ELSE LET k == CHOOSE x \in keys : TRUE
         IN <<m[k]>> \o MapValues(m, keys \ {k})

\* The key sets a HashMap::values() iteration can hand out first: the map's
\* iteration order is arbitrary, so any n of its keys.
RECURSIVE SubsetsOfSize(_, _)
SubsetsOfSize(S, n) ==
    IF n = 0 THEN {{}}
    ELSE IF Cardinality(S) <= n THEN {S}
    ELSE LET x == CHOOSE y \in S : TRUE
         IN SubsetsOfSize(S \ {x}, n)
              \cup {T \cup {x} : T \in SubsetsOfSize(S \ {x}, n - 1)}

FirstKeys(m, n) == SubsetsOfSize(DOMAIN m, n)

Zeros(n) == [i \in 1..n |-> 0]

\* A u64 is the sequence of its four 16-bit limbs, least significant first.
LimbBits == 16
Limb == 65536
Pow2(n) == 2 ^ n

U64(n) == <<n % Limb, (n \div Limb) % Limb, 0, 0>>          \* a value below 2^31

\* the value of a u64 below 2^31, and `x as u32` as the residue nearest 0
ToInt(x) == x[1] + Limb * x[2]
AsU32(x) == IF x[2] < Limb \div 2 THEN x[1] + Limb * x[2]
            ELSE (x[1] + Limb * (x[2] - Limb \div 2)) - 1073741824 - 1073741824

(***************************************************************************)
(* Edge lists handed to the finders and to the verifier.                   *)
(***************************************************************************)
Edge(u, v) == [u |-> u, v |-> v]
\* Edge::new(Node::new(a), Node::new(b)): a Node holds a u64
NodeEdge(a, b) == Edge(U64(a), U64(b))

create_synthetic_42_cycle_graph == [i \in 1..42 |-> NodeEdge(i - 1, i % 42)]

RECURSIVE TreeEdgesFrom(_)
TreeEdgesFrom(i) ==
    IF i >= 20 THEN <<>>
    ELSE (IF 2 * i + 1 < 40 THEN <<NodeEdge(i, 2 * i + 1)>> ELSE <<>>)
         \o (IF 2 * i + 2 < 40 THEN <<NodeEdge(i, 2 * i + 2)>> ELSE <<>>)
         \o TreeEdgesFrom(i + 1)

create_synthetic_tree_graph == TreeEdgesFrom(0)

SmallEdges == {NodeEdge(a, b) : a \in 0..MaxNode, b \in 0..MaxNode}
SmallLists == UNION {[1..n -> SmallEdges] : n \in 0..MaxEdges}

\* one cycle of LongCycleLength edges, longer than a solution
LongCycle == [i \in 1..LongCycleLength |-> NodeEdge(i - 1, i % LongCycleLength)]

FinderInputs ==
    {create_synthetic_42_cycle_graph, create_synthetic_tree_graph, LongCycle}
        \cup SmallLists

(***************************************************************************)
(* HashCycleFinder (hash_cycle_finder.rs).  A chain is the sequence of its *)
(* links <<node, edge_index>>, newest first: a link's previous_link is the *)
(* tail of the sequence.                                                   *)
(***************************************************************************)
\* What is observed of the search made for the last edge inserted (a record
\* of the run, not a field of the finder): `loops` counts the iterations of
\* the straight-through loop that have begun and `cycle_size` is the
\* cycle_size of the last of them; `calls` holds <<helper, cycle_size>> of
\* every helper call and `returns` <<helper, result>> of every helper
\* return; `depth` is the number of helper calls that have not returned;
\* `max_u` and `max_v` are the largest sizes the visited maps have had and
\* `shared` the pair indices that have been keys of both at one time;
\* `framed` says that every helper call that returned false left the maps
\* and the root node as they were when it was called.
NoWatch ==
    [loops |-> 0, cycle_size |-> 0, calls |-> {}, returns |-> {},
     depth |-> 0, max_depth |-> 0, max_u |-> 0, max_v |-> 0,
     shared |-> {}, framed |-> TRUE]
\* the element of a one-element set: binds a value that is computed once
TheOne(S) == CHOOSE x \in S : TRUE
Larger(a, b) == IF a >= b THEN a ELSE b
Looped(w, cycle_size) ==
    [w EXCEPT !.loops = @ + 1, !.cycle_size = cycle_size]
Visited(w, u_visited, v_visited) ==
    [w EXCEPT !.max_u = Larger(@, Cardinality(DOMAIN u_visited)),
              !.max_v = Larger(@, Cardinality(DOMAIN v_visited)),
              !.shared = @ \cup ((DOMAIN u_visited) \cap (DOMAIN v_visited))]
Called(w, helper, cycle_size) ==
    [w EXCEPT !.calls = @ \cup {<<helper, cycle_size>>},
              !.depth = @ + 1,
              !.max_depth = Larger(@, w.depth + 1)]
Returned(w, helper, result, framed) ==
    [w EXCEPT !.returns = @ \cup {<<helper, result>>},
              !.depth = @ - 1,
              !.framed = @ /\ framed]

HashCycleFinder_new ==
    [u_newest_connections |-> EmptyMap,
     v_newest_connections |-> EmptyMap,
     u_visited_pairs |-> EmptyMap,
     v_visited_pairs |-> EmptyMap,
     root_node |-> 0,
     watch |-> NoWatch]

\* the four maps are cleared and root_node is Node::new(0)
initialize_thread_local_global_variables(f) ==
    [f EXCEPT !.u_newest_connections = EmptyMap,
              !.v_newest_connections = EmptyMap,
              !.u_visited_pairs = EmptyMap,
              !.v_visited_pairs = EmptyMap,
              !.root_node = 0,
              !.watch = NoWatch]

\* the fields of the finder a search can change
HcfFrame(f) ==
    <<f.u_visited_pairs, f.v_visited_pairs,
      f.u_newest_connections, f.v_newest_connections, f.root_node>>
HcfSeen(f) == [f EXCEPT !.watch = Visited(@, f.u_visited_pairs, f.v_visited_pairs)]
\* the finder `left` that a helper called on the finder f returns false with
HcfLeft(f, helper, left) ==
    [left EXCEPT !.watch = Returned(@, helper, FALSE, HcfFrame(left) = HcfFrame(f))]

Link(node, edge_index) == <<node, edge_index>>
LinkNode(l) == l[1]
LinkEdgeIndex(l) == l[2]

\* a link without its previous_link: the chain of `node` is the new link alone
PushLinkWithoutPrevious(newest, node, edge_index) ==
    MapInsert(newest, node, <<Link(node, edge_index)>>)

\* prepend a link at the chain of `node`
PushLink(newest, node, edge_index) ==
    MapInsert(newest, node,
              <<Link(node, edge_index)>>
                  \o (IF ContainsKey(newest, node) THEN newest[node] ELSE <<>>))

HcfResult(found, last, f) == [found |-> found, last |-> last, f |-> f]

RECURSIVE search_node_connections_first_partition(_, _, _, _)
RECURSIVE search_node_connections_second_partition(_, _, _, _)
RECURSIVE HcfFirstConnections(_, _, _, _)
RECURSIVE HcfSecondConnections(_, _, _, _)

\* the `for (connected_node, connected_edge_index) in connections` loop of
\* search_node_connections_first_partition, from link i on; `step` is what
\* the body of the loop does with link i
HcfFirstConnections(f, cycle_size, conns, i) ==
    LET connected_node == LinkNode(conns[i])
        connected_edge_index == LinkEdgeIndex(conns[i])
        connected_node_pair_index == Shr1(connected_node + 1)
        step ==
          IF i > Len(conns) THEN "end"
          ELSE IF ContainsKey(f.v_visited_pairs, connected_node_pair_index)
          THEN "continue"
          ELSE IF Xor1(connected_node) = f.root_node
          THEN IF cycle_size = SOLUTION_SIZE - 1 THEN "found" ELSE "continue"
          ELSE IF cycle_size # SOLUTION_SIZE - 1
                  /\ ContainsKey(f.v_newest_connections, Xor1(connected_node))
          THEN "search"
          ELSE "continue"
    IN CASE step = "end" -> HcfResult(FALSE, 0, f)
         [] step = "continue" -> HcfFirstConnections(f, cycle_size, conns, i + 1)
         [] step = "found" ->
              HcfResult(TRUE, 0,
                HcfSeen([f EXCEPT !.v_visited_pairs =
                   MapInsert(@, connected_node_pair_index, connected_edge_index)]))
         [] step = "search" ->
              CHOOSE left \in
                { IF r.found THEN r
                  ELSE HcfFirstConnections(r.f, cycle_size, conns, i + 1) :
                  r \in {search_node_connections_second_partition(
                           f, cycle_size + 1, Xor1(connected_node),
                           connected_edge_index)} } : TRUE

search_node_connections_first_partition(f, cycle_size, node, index) ==
    CHOOSE left \in
      { IF r.found
        THEN [r EXCEPT !.f.watch = Returned(@, "first_partition", TRUE, TRUE)]
        ELSE HcfResult(FALSE, 0,
               HcfLeft(f, "first_partition",
                       [r.f EXCEPT !.u_visited_pairs = MapRemove(@, Shr1(node))])) :
        r \in {IF ContainsKey(f1.u_newest_connections, node)
               THEN HcfFirstConnections(f1, cycle_size, f1.u_newest_connections[node], 1)
               ELSE HcfResult(FALSE, 0, f1) :
               f1 \in {HcfSeen([f EXCEPT
                          !.u_visited_pairs = MapInsert(@, Shr1(node), index),
                          !.watch = Called(@, "first_partition", cycle_size)])}} } : TRUE

\* a helper that reports a cycle whatever the chains hold
second_partition_always_found(f, cycle_size, node, index) ==
    HcfResult(TRUE, 0,
      [f EXCEPT !.watch = Returned(Called(@, "second_partition", cycle_size),
                                   "second_partition", TRUE, TRUE)])

\* the connections loop of search_node_connections_second_partition
HcfSecondConnections(f, cycle_size, conns, i) ==
    LET connected_node == LinkNode(conns[i])
        connected_edge_index == LinkEdgeIndex(conns[i])
        step ==
          IF i > Len(conns) THEN "end"
          ELSE IF ContainsKey(f.u_newest_connections, Xor1(connected_node))
                  /\ ~ContainsKey(f.u_visited_pairs, Shr1(connected_node))
          THEN "search"
          ELSE "continue"
    IN CASE step = "end" -> HcfResult(FALSE, 0, f)
         [] step = "continue" -> HcfSecondConnections(f, cycle_size, conns, i + 1)
         [] step = "search" ->
              CHOOSE left \in
                { IF r.found THEN r
                  ELSE HcfSecondConnections(r.f, cycle_size, conns, i + 1) :
                  r \in {search_node_connections_first_partition(
                           f, cycle_size + 1, Xor1(connected_node),
                           connected_edge_index)} } : TRUE

search_node_connections_second_partition(f, cycle_size, node, index) ==
    CHOOSE left \in
      { IF r.found
        THEN [r EXCEPT !.f.watch = Returned(@, "second_partition", TRUE, TRUE)]
        ELSE HcfResult(FALSE, 0,
               HcfLeft(f, "second_partition",
                       [r.f EXCEPT !.v_visited_pairs = MapRemove(@, Shr1(node))])) :
        r \in {IF ContainsKey(f1.v_newest_connections, node)
               THEN HcfSecondConnections(f1, cycle_size, f1.v_newest_connections[node], 1)
               ELSE HcfResult(FALSE, 0, f1) :
               f1 \in {HcfSeen([f EXCEPT
                          !.v_visited_pairs = MapInsert(@, Shr1(node), index),
                          !.watch = Called(@, "second_partition", cycle_size)])}} } : TRUE

\* the connections loop on partition U inside the main loop (several links
\* at the pair of the current node)
RECURSIVE HcfLoopUConnections(_, _, _, _)
HcfLoopUConnections(f, cycle_size, conns, i) ==
    LET connected_node == LinkNode(conns[i])
        connected_edge_index == LinkEdgeIndex(conns[i])
        connected_node_pair_index == Shr1(connected_node + 1)
        step ==
          IF i > Len(conns) THEN "end"
          ELSE IF ContainsKey(f.v_visited_pairs, connected_node_pair_index)
          THEN "continue"
          ELSE IF Xor1(connected_node) = f.root_node
          THEN IF cycle_size = SOLUTION_SIZE - 1 THEN "found" ELSE "continue"
          ELSE IF cycle_size # SOLUTION_SIZE - 1
                  /\ ContainsKey(f.v_newest_connections, Xor1(connected_node))
          THEN "search"
          ELSE "continue"
    IN CASE step = "end" -> HcfResult(FALSE, 0, f)
         [] step = "continue" -> HcfLoopUConnections(f, cycle_size, conns, i + 1)
         [] step = "found" -> HcfResult(TRUE, connected_edge_index, f)
         [] step = "search" ->
              CHOOSE left \in
                { IF r.found THEN HcfResult(TRUE, 0, r.f)
                  ELSE HcfLoopUConnections(r.f, cycle_size, conns, i + 1) :
                  r \in {search_node_connections_second_partition(
                           f, cycle_size + 1, Xor1(connected_node),
                           connected_edge_index)} } : TRUE

\* the connections loop on partition V inside the main loop
RECURSIVE HcfLoopVConnections(_, _, _, _)
HcfLoopVConnections(f, cycle_size, conns, i) ==
    LET connected_node == LinkNode(conns[i])
        connected_edge_index == LinkEdgeIndex(conns[i])
        step ==
          IF i > Len(conns) THEN "end"
          ELSE IF ContainsKey(f.u_newest_connections, Xor1(connected_node))
                  /\ ~ContainsKey(f.u_visited_pairs, Shr1(connected_node))
          THEN "search"
          ELSE "continue"
    IN CASE step = "end" -> HcfResult(FALSE, 0, f)
         [] step = "continue" -> HcfLoopVConnections(f, cycle_size, conns, i + 1)
         [] step = "search" ->
              CHOOSE left \in
                { IF r.found THEN HcfResult(TRUE, 0, r.f)
                  ELSE HcfLoopVConnections(r.f, cycle_size, conns, i + 1) :
                  r \in {search_node_connections_first_partition(
                           f, cycle_size + 2, Xor1(connected_node),
                           connected_edge_index)} } : TRUE

\* the `loop { ... }` of get_cuckatoo_solution that walks the cycle; found
\* means that a `return true` was reached, with `last` the last_edge_index
\* handed to get_solution_from_visited_nodes
\* `cycle_size += 2` is reached: the loop goes on from the finder f at
\* current_node, current_index
CycleLoopAgain(f, current_node, current_index) ==
    [again |-> TRUE, f |-> f, current_node |-> current_node,
     current_index |-> current_index]

\* one iteration of the loop: the result the loop is left with, or the
\* values the next iteration starts from
HcfCycleLoopBody(f, cycle_size, current_node, current_index) ==
    TheOne({
       IF ~ContainsKey(f1.u_newest_connections, Xor1(current_node))
       THEN HcfResult(FALSE, 0, f1)
       ELSE
         LET node_connection == f1.u_newest_connections[Xor1(current_node)]
             index2 == LinkEdgeIndex(node_connection[1])
             node2 == LinkNode(node_connection[1])
         IN IF Len(node_connection) > 1
            THEN HcfLoopUConnections(f1, cycle_size, node_connection, 1)
            ELSE IF ContainsKey(f1.v_visited_pairs, Shr1(node2))
            THEN HcfResult(FALSE, 0, f1)
            ELSE IF Xor1(node2) = f1.root_node
            THEN IF cycle_size = SOLUTION_SIZE - 1
                 THEN HcfResult(TRUE, index2, f1)
                 ELSE HcfResult(FALSE, 0, f1)
            ELSE IF cycle_size = SOLUTION_SIZE - 1
            THEN HcfResult(FALSE, 0, f1)
            ELSE IF ~ContainsKey(f1.v_newest_connections, Xor1(node2))
            THEN HcfResult(FALSE, 0, f1)
            ELSE TheOne({
              LET v_connection == f2.v_newest_connections[Xor1(node2)]
                  index3 == LinkEdgeIndex(v_connection[1])
                  node3 == LinkNode(v_connection[1])
              IN IF Len(v_connection) > 1
                 THEN HcfLoopVConnections(f2, cycle_size, v_connection, 1)
                 ELSE IF ContainsKey(f2.u_visited_pairs, Shr1(node3))
                 THEN HcfResult(FALSE, 0, f2)
                 ELSE IF ~ContainsKey(f2.u_newest_connections, Xor1(node3))
                 THEN HcfResult(FALSE, 0, f2)
                 ELSE CycleLoopAgain(f2, node3, index3) :
              f2 \in {HcfSeen([f1 EXCEPT !.v_visited_pairs =
                        MapInsert(@, Shr1(node2), index2)])} }) :
       f1 \in {HcfSeen([f EXCEPT
                 !.u_visited_pairs = MapInsert(@, Shr1(current_node), current_index),
                 !.watch = Looped(@, cycle_size)])} })

RECURSIVE HcfCycleLoop(_, _, _, _)
HcfCycleLoop(f, cycle_size, current_node, current_index) ==
    CHOOSE left \in
           { IF "again" \in DOMAIN body
             THEN HcfCycleLoop(body.f, cycle_size + 2,
                               body.current_node, body.current_index)
             ELSE body :
             body \in {HcfCycleLoopBody(f, cycle_size, current_node, current_index)} } : TRUE

\* The arrays get_solution_from_visited_nodes can leave in `solution`: the
\* values of at most 21 U entries, then V entries up to slot 41, then
\* last_edge_index; later slots keep what they held.
get_solution_from_visited_nodes(f, solution, last_edge_index) ==
    LET nu == IF Cardinality(DOMAIN f.u_visited_pairs) <= SOLUTION_SIZE \div 2
              THEN Cardinality(DOMAIN f.u_visited_pairs) ELSE SOLUTION_SIZE \div 2
        roomv == (SOLUTION_SIZE - 1) - nu
        nv == IF Cardinality(DOMAIN f.v_visited_pairs) <= roomv
              THEN Cardinality(DOMAIN f.v_visited_pairs) ELSE roomv
        i == nu + nv
    IN { MapValues(f.u_visited_pairs, Tu) \o MapValues(f.v_visited_pairs, Tv)
           \o (IF i < SOLUTION_SIZE
               THEN <<last_edge_index>> \o SubSeq(solution, i + 2, SOLUTION_SIZE)
               ELSE <<>>)
         : Tu \in FirstKeys(f.u_visited_pairs, nu),
           Tv \in FirstKeys(f.v_visited_pairs, nv) }

\* find_cycle's conversion of the edge list to the flat array
\* [edge_index, node_u, node_v, ...]: the edge index is the position i, the
\* nodes are cast to u32
RECURSIVE CppEdges(_, _)
CppEdges(edges, i) ==
    IF i >= Len(edges) THEN <<>>
    ELSE <<i, AsU32(edges[i + 1].u), AsU32(edges[i + 1].v)>> \o CppEdges(edges, i + 1)

NoResult == [returned |-> FALSE]
OkNone == [returned |-> TRUE, ok |-> TRUE, some |-> FALSE]
OkSome(x) == [returned |-> TRUE, ok |-> TRUE, some |-> TRUE, value |-> x]

HcallIdle == [pc |-> "idle"]

\* the find_cycle call on `edges` at the first test of the while loop;
\* `attempt` is the number of calls made on the finder
HcfCall(edges, attempt) ==
    [pc |-> "loop",
     edges |-> edges,
     cpp_edges |-> CppEdges(edges, 0),
     number_of_edges |-> Len(edges),
     node_connections_index |-> 0,
     edges_index |-> 0,
     solution |-> Zeros(SOLUTION_SIZE),
     attempt |-> attempt,
     result |-> NoResult]

\* find_cycle up to the first test of the while loop, on a new finder or on
\* one that waits for its next call
HcfFindCycle(edges) ==
    /\ hcall.pc \in {"idle", "waiting"}
    /\ hcf' = initialize_thread_local_global_variables(hcf)
    /\ hcall' = HcfCall(edges, IF hcall.pc = "idle" THEN 1 ELSE hcall.attempt + 1)
    /\ UNCHANGED <<bmp, cli, kdf, lean, gen, ccf, ccall, ver, sip, trim>>

\* the body of the while loop of get_cuckatoo_solution for the edge at
\* edges_index: insert it on both partitions, test for pairs, search
HcfEdgeOutcome(f, call) ==
    LET index == call.cpp_edges[call.edges_index + 1]
        node == call.cpp_edges[call.edges_index + 2]
        root == call.cpp_edges[call.edges_index + 3]
        f1 == [f EXCEPT !.root_node = root,
                        !.u_newest_connections = PushLink(@, node, index),
                        !.v_newest_connections = PushLink(@, root, index),
                        !.watch = NoWatch]
        has_pairs == ContainsKey(f1.u_newest_connections, Xor1(node))
                     /\ ContainsKey(f1.v_newest_connections, Xor1(root))
    IN IF has_pairs
       THEN HcfCycleLoop([f1 EXCEPT !.u_visited_pairs = EmptyMap,
                                    !.v_visited_pairs = EmptyMap],
                         1, node, index)
       ELSE HcfResult(FALSE, 0, f1)

\* one iteration of the while loop of get_cuckatoo_solution
HcfProcessEdge ==
    /\ hcall.pc = "loop"
    /\ UNCHANGED <<bmp, cli, kdf, lean, gen, ccf, ccall, ver, sip, trim>>
    /\ hcall.node_connections_index < hcall.number_of_edges * 2
    /\ LET r == HcfEdgeOutcome(hcf, hcall)
       IN /\ hcf' = r.f
          /\ IF r.found
             THEN \E s \in get_solution_from_visited_nodes(r.f, hcall.solution, r.last) :
                    hcall' = [hcall EXCEPT !.pc = "done",
                                           !.solution = SortAsc(s),
                                           !.result = OkSome(SortAsc(s))]
             ELSE hcall' = [hcall EXCEPT
                              !.node_connections_index = @ + 2,
                              !.edges_index = @ + EDGE_NUMBER_OF_COMPONENTS]

\* the while loop ends: get_cuckatoo_solution returns false, find_cycle Ok(None)
HcfReturnNone ==
    /\ hcall.pc = "loop"
    /\ ~(hcall.node_connections_index < hcall.number_of_edges * 2)
    /\ hcall' = [hcall EXCEPT !.pc = "done", !.result = OkNone]
    /\ UNCHANGED <<bmp, cli, kdf, lean, gen, hcf, ccf, ccall, ver, sip, trim>>

(***************************************************************************)
(* CppCycleFinder (cpp_cycle_finder.rs).  Its nodes and edge indices are   *)
(* u32 and it computes node + 1, node - 1, edge_index + 1, edge_index - 1. *)
(* A u32 is kept as its residue nearest 0, so 2^32 - 1 is -1.  With        *)
(* overflow checks (a debug build) an overflowing + or - panics, without   *)
(* them (a release build) it wraps.                                        *)
(***************************************************************************)
U32Max == -1
U32Add1(x) == IF x = U32Max THEN 0 ELSE x + 1
U32Sub1(x) == IF x = 0 THEN U32Max ELSE x - 1
U32Shr1(x) == IF x >= 0 THEN x \div 2 ELSE ((x \div 2) + 1073741824) + 1073741824
AddPanics(chk, x) == chk /\ x = U32Max
SubPanics(chk, x) == chk /\ x = 0

CppCycleFinder_new ==
    [cuckatoo_u_newest_node_connections |-> EmptyMap,
     cuckatoo_v_newest_node_connections |-> EmptyMap,
     cuckatoo_u_visited_node_pairs |-> EmptyMap,
     cuckatoo_v_visited_node_pairs |-> EmptyMap,
     cuckatoo_root_node |-> 0,
     watch |-> NoWatch]

initialize_cuckatoo_thread_local_global_variables == CppCycleFinder_new

\* an insertion that keeps no entry but the new one
set_unique_forgetting_the_rest(m, key, value) == MapInsert(EmptyMap, key, value)

\* VisitedNodePairs::set_unique(key, value)
set_unique(m, key, value) == MapInsert(m, key, value)

\* the fields of the finder a search can change
CcfFrame(f) ==
    <<f.cuckatoo_u_visited_node_pairs, f.cuckatoo_v_visited_node_pairs,
      f.cuckatoo_u_newest_node_connections, f.cuckatoo_v_newest_node_connections,
      f.cuckatoo_root_node>>
CcfSeen(f) ==
    [f EXCEPT !.watch = Visited(@, f.cuckatoo_u_visited_node_pairs,
                                   f.cuckatoo_v_visited_node_pairs)]
\* the finder `left` that a helper called on the finder f returns false with
CcfLeft(f, helper, left) ==
    [left EXCEPT !.watch = Returned(@, helper, FALSE, CcfFrame(left) = CcfFrame(f))]

\* found: a `return true` was reached; with_last: the return site stores
\* `last` in solution[41] itself; panic: an arithmetic overflow panicked
CcfResult(found, with_last, last, f) ==
    [found |-> found, panic |-> FALSE, with_last |-> with_last, last |-> last, f |-> f]
CcfBreak(f) == CcfResult(FALSE, FALSE, 0, f)
CcfPanic(f) == [found |-> FALSE, panic |-> TRUE, with_last |-> FALSE, last |-> 0, f |-> f]

RECURSIVE search_node_connections_for_cuckatoo_solution_first_partition(_, _, _, _, _)
RECURSIVE search_node_connections_for_cuckatoo_solution_second_partition(_, _, _, _, _)
RECURSIVE CcfFirstConnections(_, _, _, _, _)
RECURSIVE CcfSecondConnections(_, _, _, _, _)

\* the loop over the chain in ..._first_partition, from link i on; `step` is
\* what the body of the loop does with link i
CcfFirstConnections(chk, f, cycle_size, conns, i) ==
    LET node == LinkNode(conns[i])
        edge_index == LinkEdgeIndex(conns[i])
        step ==
          IF i > Len(conns) THEN "end"
          ELSE IF AddPanics(chk, node) THEN "panic"
          ELSE IF ContainsKey(f.cuckatoo_v_visited_node_pairs, U32Shr1(U32Add1(node)))
          THEN "continue"
          ELSE IF Xor1(U32Add1(node)) = f.cuckatoo_root_node
          THEN IF cycle_size = SOLUTION_SIZE - 1
               THEN IF AddPanics(chk, edge_index) THEN "panic" ELSE "found"
               ELSE "continue"
          ELSE IF cycle_size # SOLUTION_SIZE - 1
                  /\ ContainsKey(f.cuckatoo_v_newest_node_connections, Xor1(U32Add1(node)))
          THEN IF AddPanics(chk, edge_index) THEN "panic" ELSE "search"
          ELSE "continue"
    IN CASE step = "end" -> CcfBreak(f)
         [] step = "panic" -> CcfPanic(f)
         [] step = "continue" -> CcfFirstConnections(chk, f, cycle_size, conns, i + 1)
         [] step = "found" ->
              CcfResult(TRUE, FALSE, 0,
                CcfSeen([f EXCEPT !.cuckatoo_v_visited_node_pairs =
                   set_unique(@, U32Shr1(U32Add1(node)), U32Add1(edge_index))]))
         [] step = "search" ->
              CHOOSE left \in
                { IF r.found \/ r.panic THEN r
                  ELSE CcfFirstConnections(chk, r.f, cycle_size, conns, i + 1) :
                  r \in {search_node_connections_for_cuckatoo_solution_second_partition(
                           chk, f, cycle_size + 1, Xor1(U32Add1(node)),
                           U32Add1(edge_index))} } : TRUE

search_node_connections_for_cuckatoo_solution_first_partition(chk, f, cycle_size, node, index) ==
    CHOOSE left \in
      { IF r.panic THEN r
        ELSE IF r.found
        THEN [r EXCEPT !.f.watch = Returned(@, "first_partition", TRUE, TRUE)]
        ELSE CcfBreak(CcfLeft(f, "first_partition",
                              [r.f EXCEPT !.cuckatoo_u_visited_node_pairs =
                                              MapRemove(@, U32Shr1(node))])) :
        r \in {IF ContainsKey(f1.cuckatoo_u_newest_node_connections, node)
               THEN CcfFirstConnections(chk, f1, cycle_size,
                                        f1.cuckatoo_u_newest_node_connections[node], 1)
               ELSE CcfBreak(f1) :
               f1 \in {CcfSeen([f EXCEPT
                          !.cuckatoo_u_visited_node_pairs = set_unique(@, U32Shr1(node), index),
                          !.watch = Called(@, "first_partition", cycle_size)])}} } : TRUE

\* the loop over the chain in ..._second_partition, from link i on
CcfSecondConnections(chk, f, cycle_size, conns, i) ==
    LET node == LinkNode(conns[i])
        edge_index == LinkEdgeIndex(conns[i])
        step ==
          IF i > Len(conns) THEN "end"
          ELSE IF SubPanics(chk, node) THEN "panic"
          ELSE IF ContainsKey(f.cuckatoo_u_visited_node_pairs, U32Shr1(U32Sub1(node)))
          THEN "continue"
          ELSE IF Xor1(U32Sub1(node)) = f.cuckatoo_root_node
          THEN IF cycle_size = SOLUTION_SIZE - 1
               THEN IF SubPanics(chk, edge_index) THEN "panic" ELSE "found"
               ELSE "continue"
          ELSE IF cycle_size # SOLUTION_SIZE - 1
                  /\ ContainsKey(f.cuckatoo_u_newest_node_connections, Xor1(U32Sub1(node)))
          THEN IF SubPanics(chk, edge_index) THEN "panic" ELSE "search"
          ELSE "continue"
    IN CASE step = "end" -> CcfBreak(f)
         [] step = "panic" -> CcfPanic(f)
         [] step = "continue" -> CcfSecondConnections(chk, f, cycle_size, conns, i + 1)
         [] step = "found" ->
              CcfResult(TRUE, FALSE, 0,
                CcfSeen([f EXCEPT !.cuckatoo_u_visited_node_pairs =
                   set_unique(@, U32Shr1(U32Sub1(node)), U32Sub1(edge_index))]))
         [] step = "search" ->
              CHOOSE left \in
                { IF r.found \/ r.panic THEN r
                  ELSE CcfSecondConnections(chk, r.f, cycle_size, conns, i + 1) :
                  r \in {search_node_connections_for_cuckatoo_solution_first_partition(
                           chk, f, cycle_size + 1, Xor1(U32Sub1(node)),
                           U32Sub1(edge_index))} } : TRUE

search_node_connections_for_cuckatoo_solution_second_partition(chk, f, cycle_size, node, index) ==
    CHOOSE left \in
      { IF r.panic THEN r
        ELSE IF r.found
        THEN [r EXCEPT !.f.watch = Returned(@, "second_partition", TRUE, TRUE)]
        ELSE CcfBreak(CcfLeft(f, "second_partition",
                              [r.f EXCEPT !.cuckatoo_v_visited_node_pairs =
                                              MapRemove(@, U32Shr1(node))])) :
        r \in {IF ContainsKey(f1.cuckatoo_v_newest_node_connections, node)
               THEN CcfSecondConnections(chk, f1, cycle_size,
                                         f1.cuckatoo_v_newest_node_connections[node], 1)
               ELSE CcfBreak(f1) :
               f1 \in {CcfSeen([f EXCEPT
                          !.cuckatoo_v_visited_node_pairs = set_unique(@, U32Shr1(node), index),
                          !.watch = Called(@, "second_partition", cycle_size)])}} } : TRUE

\* main loop, several links at the pair of the current node on partition U
RECURSIVE CcfLoopUConnections(_, _, _, _, _)
CcfLoopUConnections(chk, f, cycle_size, conns, i) ==
    LET node == LinkNode(conns[i])
        edge_index == LinkEdgeIndex(conns[i])
        step ==
          IF i > Len(conns) THEN "end"
          ELSE IF AddPanics(chk, node) THEN "panic"
          ELSE IF ContainsKey(f.cuckatoo_v_visited_node_pairs, U32Shr1(U32Add1(node)))
          THEN "continue"
          ELSE IF Xor1(U32Add1(node)) = f.cuckatoo_root_node
          THEN IF cycle_size = SOLUTION_SIZE - 1
               THEN IF AddPanics(chk, edge_index) THEN "panic" ELSE "found"
               ELSE "continue"
          ELSE IF cycle_size # SOLUTION_SIZE - 1
                  /\ ContainsKey(f.cuckatoo_v_newest_node_connections, Xor1(U32Add1(node)))
          THEN IF AddPanics(chk, edge_index) THEN "panic" ELSE "search"
          ELSE "continue"
    IN CASE step = "end" -> CcfBreak(f)
         [] step = "panic" -> CcfPanic(f)
         [] step = "continue" -> CcfLoopUConnections(chk, f, cycle_size, conns, i + 1)
         [] step = "found" -> CcfResult(TRUE, TRUE, U32Add1(edge_index), f)
         [] step = "search" ->
              CHOOSE left \in
                { IF r.found \/ r.panic THEN r
                  ELSE CcfLoopUConnections(chk, r.f, cycle_size, conns, i + 1) :
                  r \in {search_node_connections_for_cuckatoo_solution_second_partition(
                           chk, f, cycle_size + 1, Xor1(U32Add1(node)),
                           U32Add1(edge_index))} } : TRUE

\* main loop, several links at the pair of the current node on partition V
RECURSIVE CcfLoopVConnections(_, _, _, _, _)
CcfLoopVConnections(chk, f, cycle_size, conns, i) ==
    LET node == LinkNode(conns[i])
        edge_index == LinkEdgeIndex(conns[i])
        step ==
          IF i > Len(conns) THEN "end"
          ELSE IF SubPanics(chk, node) THEN "panic"
          ELSE IF ContainsKey(f.cuckatoo_u_newest_node_connections, Xor1(U32Sub1(node)))
                  /\ ~ContainsKey(f.cuckatoo_u_visited_node_pairs, U32Shr1(U32Sub1(node)))
          THEN IF SubPanics(chk, edge_index) THEN "panic" ELSE "search"
          ELSE "continue"
    IN CASE step = "end" -> CcfBreak(f)
         [] step = "panic" -> CcfPanic(f)
         [] step = "continue" -> CcfLoopVConnections(chk, f, cycle_size, conns, i + 1)
         [] step = "search" ->
              CHOOSE left \in
                { IF r.found \/ r.panic THEN r
                  ELSE CcfLoopVConnections(chk, r.f, cycle_size, conns, i + 1) :
                  r \in {search_node_connections_for_cuckatoo_solution_first_partition(
                           chk, f, cycle_size + 2, Xor1(U32Sub1(node)),
                           U32Sub1(edge_index))} } : TRUE

\* the `loop { ... }` of CppCycleFinder::get_cuckatoo_solution
\* one iteration of the loop: the result the loop is left with, or the
\* values the next iteration starts from
CcfCycleLoopBody(chk, f, cycle_size, current_node, current_index) ==
    TheOne({
       IF ~ContainsKey(f1.cuckatoo_u_newest_node_connections, Xor1(current_node))
       THEN CcfBreak(f1)
       ELSE
         LET node_connection == f1.cuckatoo_u_newest_node_connections[Xor1(current_node)]
             index2 == U32Add1(LinkEdgeIndex(node_connection[1]))
             node2 == U32Add1(LinkNode(node_connection[1]))
         IN IF Len(node_connection) > 1
            THEN CcfLoopUConnections(chk, f1, cycle_size, node_connection, 1)
            ELSE IF AddPanics(chk, LinkEdgeIndex(node_connection[1]))
                    \/ AddPanics(chk, LinkNode(node_connection[1]))
            THEN CcfPanic(f1)
            ELSE IF ContainsKey(f1.cuckatoo_v_visited_node_pairs, U32Shr1(node2))
            THEN CcfBreak(f1)
            ELSE IF Xor1(node2) = f1.cuckatoo_root_node
            THEN IF cycle_size = SOLUTION_SIZE - 1
                 THEN CcfResult(TRUE, TRUE, index2, f1)
                 ELSE CcfBreak(f1)
            ELSE IF cycle_size = SOLUTION_SIZE - 1
            THEN CcfBreak(f1)
            ELSE IF ~ContainsKey(f1.cuckatoo_v_newest_node_connections, Xor1(node2))
            THEN CcfBreak(f1)
            ELSE TheOne({
              LET v_connection == f2.cuckatoo_v_newest_node_connections[Xor1(node2)]
                  index3 == U32Sub1(LinkEdgeIndex(v_connection[1]))
                  node3 == U32Sub1(LinkNode(v_connection[1]))
              IN IF Len(v_connection) > 1
                 THEN CcfLoopVConnections(chk, f2, cycle_size, v_connection, 1)
                 ELSE IF SubPanics(chk, LinkEdgeIndex(v_connection[1]))
                         \/ SubPanics(chk, LinkNode(v_connection[1]))
                 THEN CcfPanic(f2)
                 ELSE IF ContainsKey(f2.cuckatoo_u_visited_node_pairs, U32Shr1(node3))
                 THEN CcfBreak(f2)
                 ELSE IF ~ContainsKey(f2.cuckatoo_u_newest_node_connections, Xor1(node3))
                 THEN CcfBreak(f2)
                 ELSE CycleLoopAgain(f2, node3, index3) :
              f2 \in {CcfSeen([f1 EXCEPT !.cuckatoo_v_visited_node_pairs =
                        set_unique(@, U32Shr1(node2), index2)])} }) :
       f1 \in {CcfSeen([f EXCEPT
                 !.cuckatoo_u_visited_node_pairs =
                 set_unique(@, U32Shr1(current_node), current_index),
                 !.watch = Looped(@, cycle_size)])} })

\* the loop without its `cycle_size += 2`
RECURSIVE CcfCycleLoopKeepingCycleSize(_, _, _, _, _)
CcfCycleLoopKeepingCycleSize(chk, f, cycle_size, current_node, current_index) ==
    CHOOSE left \in
           { IF "again" \in DOMAIN body
             THEN CcfCycleLoopKeepingCycleSize(chk, body.f, cycle_size,
                                               body.current_node, body.current_index)
             ELSE body :
             body \in {CcfCycleLoopBody(chk, f, cycle_size, current_node, current_index)} } : TRUE

RECURSIVE CcfCycleLoop(_, _, _, _, _)
CcfCycleLoop(chk, f, cycle_size, current_node, current_index) ==
    CHOOSE left \in
           { IF "again" \in DOMAIN body
             THEN CcfCycleLoop(chk, body.f, cycle_size + 2,
                               body.current_node, body.current_index)
             ELSE body :
             body \in {CcfCycleLoopBody(chk, f, cycle_size, current_node, current_index)} } : TRUE

\* VisitedNodePairs::get_values on a slice: the slices it can leave (the
\* first entries of an iteration in arbitrary order; the rest keeps `old`)
get_values(m, old) ==
    LET n == IF Cardinality(DOMAIN m) <= Len(old) THEN Cardinality(DOMAIN m) ELSE Len(old)
    IN { MapValues(m, T) \o SubSeq(old, n + 1, Len(old)) : T \in FirstKeys(m, n) }

\* u32 order, and slice::sort of a u32 array
U32Less(a, b) == IF (a >= 0) = (b >= 0) THEN a < b ELSE a >= 0
SortU32(s) == SortSeq(s, U32Less)

CcallIdle == [pc |-> "idle"]
CppFalse == [returned |-> TRUE, panicked |-> FALSE, found |-> FALSE]
CppTrue == [returned |-> TRUE, panicked |-> FALSE, found |-> TRUE]
CppPanicked == [returned |-> FALSE, panicked |-> TRUE, found |-> FALSE]

\* get_cuckatoo_solution(solution, node_connections, edges, number_of_edges)
\* on a reset finder, up to the first test of the while loop; the flat array
\* is that of the edge list, the solution array starts zeroed
CcfGetCuckatooSolution(edges, overflow_checks) ==
    /\ ccall.pc = "idle"
    /\ ccf' = initialize_cuckatoo_thread_local_global_variables
    /\ ccall' = [pc |-> "loop",
                 overflow_checks |-> overflow_checks,
                 edges |-> CppEdges(edges, 0),
                 number_of_edges |-> Len(edges),
                 node_connections_index |-> 0,
                 edges_index |-> 0,
                 solution |-> Zeros(SOLUTION_SIZE),
                 result |-> NoResult]
    /\ UNCHANGED <<bmp, cli, kdf, lean, gen, hcf, hcall, ver, sip, trim>>

\* the arrays a `return true` site can leave in `solution` before the sort
CcfSolutions(r, solution) ==
    LET half == SOLUTION_SIZE \div 2
    IN IF r.with_last
       THEN { su \o sv \o <<r.last>> :
                su \in get_values(r.f.cuckatoo_u_visited_node_pairs,
                                  SubSeq(solution, 1, half)),
                sv \in get_values(r.f.cuckatoo_v_visited_node_pairs,
                                  SubSeq(solution, half + 1, SOLUTION_SIZE - 1)) }
       ELSE { su \o sv :
                su \in get_values(r.f.cuckatoo_u_visited_node_pairs,
                                  SubSeq(solution, 1, half)),
                sv \in get_values(r.f.cuckatoo_v_visited_node_pairs,
                                  SubSeq(solution, half + 1, SOLUTION_SIZE)) }

\* one iteration of the while loop of CppCycleFinder::get_cuckatoo_solution
CcfProcessEdge ==
    /\ ccall.pc = "loop"
    /\ UNCHANGED <<bmp, cli, kdf, lean, gen, hcf, hcall, ver, sip, trim>>
    /\ ccall.node_connections_index < ccall.number_of_edges * 2
    /\ LET index == ccall.edges[ccall.edges_index + 1]
           node == ccall.edges[ccall.edges_index + 2]
           root == ccall.edges[ccall.edges_index + 3]
           f1 == [ccf EXCEPT
                    !.cuckatoo_root_node = root,
                    !.cuckatoo_u_newest_node_connections = PushLink(@, node, index),
                    !.cuckatoo_v_newest_node_connections = PushLink(@, root, index),
                    !.watch = NoWatch]
           has_pairs == ContainsKey(f1.cuckatoo_u_newest_node_connections, Xor1(node))
                        /\ ContainsKey(f1.cuckatoo_v_newest_node_connections, Xor1(root))
           r == IF has_pairs
                THEN CcfCycleLoop(ccall.overflow_checks,
                                  [f1 EXCEPT !.cuckatoo_u_visited_node_pairs = EmptyMap,
                                             !.cuckatoo_v_visited_node_pairs = EmptyMap],
                                  1, node, index)
                ELSE CcfBreak(f1)
       IN /\ ccf' = r.f
          /\ IF r.panic
             THEN ccall' = [ccall EXCEPT !.pc = "done", !.result = CppPanicked]
             ELSE IF r.found
             THEN \E s \in CcfSolutions(r, ccall.solution) :
                    ccall' = [ccall EXCEPT !.pc = "done",
                                           !.solution = SortU32(s),
                                           !.result = CppTrue]
             ELSE ccall' = [ccall EXCEPT
                              !.node_connections_index = @ + 2,
                              !.edges_index = @ + EDGE_NUMBER_OF_COMPONENTS]

\* the while loop ends: get_cuckatoo_solution returns false
CcfReturnFalse ==
    /\ ccall.pc = "loop"
    /\ ~(ccall.node_connections_index < ccall.number_of_edges * 2)
    /\ ccall' = [ccall EXCEPT !.pc = "done", !.result = CppFalse]
    /\ UNCHANGED <<bmp, cli, kdf, lean, gen, ccf, hcf, hcall, ver, sip, trim>>

(***************************************************************************)
(* CycleVerifier (verification.rs).  An edge list is a sequence of edges   *)
(* [u, v]; the verifier reads u and v as vertices of one undirected graph. *)
(* List positions are 0-based as in the source: position i is edges[i + 1].*)
(***************************************************************************)
\* create_test_42_cycle of the miner, converted to Edge structures by main
create_test_42_cycle ==
    [i \in 1..100 |-> IF i <= 42 THEN NodeEdge(i - 1, i % 42) ELSE NodeEdge(i - 1, Xor1(i - 1))]

\* a pendant edge, a cycle of 41 edges through vertex 0, a second pendant edge
TailLength == SOLUTION_SIZE - 1
tail_and_41_cycle ==
    <<NodeEdge(100, 0)>> \o [i \in 1..TailLength |-> NodeEdge(i - 1, i % TailLength)]
        \o <<NodeEdge(0, 200)>>

\* the synthetic 42-cycle and one more edge that does not touch it
synthetic_42_cycle_and_far_edge == create_synthetic_42_cycle_graph \o <<NodeEdge(50, 51)>>

\* the synthetic 42-cycle and one more edge at vertex 0
synthetic_42_cycle_and_pendant == create_synthetic_42_cycle_graph \o <<NodeEdge(0, 50)>>

VerifierInputs ==
    {create_synthetic_42_cycle_graph, synthetic_42_cycle_and_far_edge,
     synthetic_42_cycle_and_pendant, create_test_42_cycle, tail_and_41_cycle,
     create_synthetic_tree_graph} \cup SmallLists

\* edges.iter().position(|&e| e == current_edge), -1 for None
Position(edges, e) ==
    IF \E i \in 1..Len(edges) : edges[i] = e
    THEN (CHOOSE i \in 1..Len(edges) :
            edges[i] = e /\ \A j \in 1..(i - 1) : edges[j] # e) - 1
    ELSE -1

\* the endpoint of the last edge of `path` that is not shared with the
\* edge before it (its v for a path of one edge)
ConnectingEndpoint(path) ==
    LET last_edge == path[Len(path)]
    IN IF Len(path) = 1 THEN last_edge.v
       ELSE LET prev_edge == path[Len(path) - 1]
            IN IF prev_edge.u = last_edge.u \/ prev_edge.v = last_edge.u
               THEN last_edge.v ELSE last_edge.u

\* the first position from i on that the `for (i, &edge)` loop of
\* dfs_edge_cycle recurses into, -1 when there is none
NextIncident(edges, used_edges, connecting_endpoint, i) ==
    LET C == {j \in i..(Len(edges) - 1) :
                /\ j \notin used_edges
                /\ (edges[j + 1].u = connecting_endpoint
                    \/ edges[j + 1].v = connecting_endpoint)}
    IN IF C = {} THEN -1 ELSE CHOOSE j \in C : \A k \in C : j <= k

\* The depth-first search runs one step per action.  `path` and
\* `used_edges` are the search's two collections; `frames` holds, for every
\* dfs_edge_cycle call that has pushed its edge, the position current_index
\* it inserted into used_edges and the position `next` its `for` loop
\* examines next.
Frame(current_index, next) == [current_index |-> current_index, next |-> next]

\* verify_cycle up to the first start edge: a list shorter than 42 returns Ok(None)
VerVerifyCycle(edges) ==
    /\ ver.pc = "idle"
    /\ ver' = [pc |-> IF Len(edges) < SOLUTION_SIZE THEN "done" ELSE "loop",
               edges |-> edges,
               i |-> 0,
               target_length |-> SOLUTION_SIZE,
               used_edges |-> {},
               path |-> <<>>,
               frames |-> <<>>,
               result |-> IF Len(edges) < SOLUTION_SIZE THEN OkNone ELSE NoResult]
    /\ UNCHANGED <<bmp, cli, kdf, lean, gen, hcf, hcall, ccf, ccall, sip, trim>>

\* find_cycle_from_edge(start_edge, edges, 42, i): the first dfs_edge_cycle
\* call, on an empty path, inserts and pushes the start edge
find_cycle_from_edge ==
    /\ ver.pc = "loop"
    /\ ver.i < Len(ver.edges)
    /\ LET start_edge == ver.edges[ver.i + 1]
           current_index == Position(ver.edges, start_edge)
       IN ver' = [ver EXCEPT !.pc = "dfs",
                             !.used_edges = {current_index},
                             !.path = <<start_edge>>,
                             !.frames = <<Frame(current_index, 0)>>]
    /\ UNCHANGED <<bmp, cli, kdf, lean, gen, hcf, hcall, ccf, ccall, sip, trim>>

\* the `for` loop of the innermost dfs_edge_cycle call reaches an unused
\* edge at the connecting endpoint and calls dfs_edge_cycle on it: with 42
\* edges on the path the call decides whether the path closes on the start
\* edge, otherwise it inserts and pushes the edge
dfs_edge_cycle ==
    /\ ver.pc = "dfs"
    /\ LET depth == Len(ver.frames)
           top == ver.frames[depth]
           start_edge == ver.edges[ver.i + 1]
           j == NextIncident(ver.edges, ver.used_edges, ConnectingEndpoint(ver.path),
                             top.next)
           current_edge == ver.edges[j + 1]
           current_index == Position(ver.edges, current_edge)
           resumed == [ver.frames EXCEPT ![depth].next = j + 1]
       IN /\ j # -1
          /\ ver' = IF Len(ver.path) = ver.target_length
                    THEN IF start_edge.u = ConnectingEndpoint(ver.path)
                            \/ start_edge.v = ConnectingEndpoint(ver.path)
                         THEN [ver EXCEPT !.pc = "done", !.result = OkSome(ver.path)]
                         ELSE [ver EXCEPT !.frames = resumed]
                    ELSE [ver EXCEPT
                            !.used_edges = @ \cup {current_index},
                            !.path = Append(@, current_edge),
                            !.frames = Append(resumed, Frame(current_index, 0))]
    /\ UNCHANGED <<bmp, cli, kdf, lean, gen, hcf, hcall, ccf, ccall, sip, trim>>

\* the `for` loop of the innermost dfs_edge_cycle call ends: the call removes
\* its position from used_edges, pops its edge and returns None; when it was
\* the first call, find_cycle_from_edge returns None and verify_cycle moves on
DfsBacktrack ==
    /\ ver.pc = "dfs"
    /\ LET depth == Len(ver.frames)
           top == ver.frames[depth]
           j == NextIncident(ver.edges, ver.used_edges, ConnectingEndpoint(ver.path),
                             top.next)
       IN /\ j = -1
          /\ ver' = [ver EXCEPT
                       !.pc = IF depth = 1 THEN "loop" ELSE "dfs",
                       !.i = IF depth = 1 THEN @ + 1 ELSE @,
                       !.used_edges = @ \ {top.current_index},
                       !.path = SubSeq(@, 1, Len(@) - 1),
                       !.frames = SubSeq(@, 1, depth - 1)]
    /\ UNCHANGED <<bmp, cli, kdf, lean, gen, hcf, hcall, ccf, ccall, sip, trim>>

\* the loop over the start edges ends without a cycle: Ok(None)
VerReturnNone ==
    /\ ver.pc = "loop"
    /\ ~(ver.i < Len(ver.edges))
    /\ ver' = [ver EXCEPT !.pc = "done", !.result = OkNone]
    /\ UNCHANGED <<bmp, cli, kdf, lean, gen, hcf, hcall, ccf, ccall, sip, trim>>

(***************************************************************************)
(* SipHash-2-4 (exact_siphash.rs, bitmap_trimming.rs, main.rs).  A u64 is  *)
(* the sequence of its four 16-bit limbs, least significant first, so that *)
(* wrapping_add, ^, rotations and masks are computed on all 64 bits.       *)
(***************************************************************************)
RECURSIVE BitXor(_, _)
BitXor(a, b) ==
    IF a = 0 THEN b
    ELSE IF b = 0 THEN a
    ELSE ((a + b) % 2) + 2 * BitXor(a \div 2, b \div 2)

Xor64(a, b) ==
    <<BitXor(a[1], b[1]), BitXor(a[2], b[2]), BitXor(a[3], b[3]), BitXor(a[4], b[4])>>

wrapping_add(a, b) ==
    LET s1 == a[1] + b[1]
        s2 == a[2] + b[2] + s1 \div Limb
        s3 == a[3] + b[3] + s2 \div Limb
        s4 == a[4] + b[4] + s3 \div Limb
    IN <<s1 % Limb, s2 % Limb, s3 % Limb, s4 % Limb>>

\* x.rotate_left(n), which is (x << n) | (x >> (64 - n)), for 0 < n < 64:
\* limb i of the result takes the low bits of limb i - q and the high bits
\* of limb i - q - 1 of x (indices wrap), n = 16 q + r
RotatedLimb(x, i, n) ==
    LET q == n \div LimbBits
        r == n % LimbBits
        from == ((i - q + 3) % 4) + 1
        below == ((i - q + 2) % 4) + 1
    IN ((x[from] % Pow2(LimbBits - r)) * Pow2(r)) + (x[below] \div Pow2(LimbBits - r))

rotate_left(x, n) ==
    <<RotatedLimb(x, 1, n), RotatedLimb(x, 2, n), RotatedLimb(x, 3, n), RotatedLimb(x, 4, n)>>

\* limb i of x & ((1u64 << bits) - 1)
MaskedLimb(x, i, bits) ==
    LET keep == bits - LimbBits * (i - 1)
    IN IF keep <= 0 THEN 0
       ELSE IF keep >= LimbBits THEN x[i]
       ELSE x[i] % Pow2(keep)

MaskBits(x, bits) ==
    <<MaskedLimb(x, 1, bits), MaskedLimb(x, 2, bits), MaskedLimb(x, 3, bits),
      MaskedLimb(x, 4, bits)>>

\* the statements of a round on states[0..3] (here st[1..4]):
\* states[i] = states[i].wrapping_add(states[j]), states[i] ^= states[j],
\* states[i] = states[i].rotate_left(n)
AddInto(st, i, j) == [st EXCEPT ![i] = wrapping_add(@, st[j])]
XorInto(st, i, j) == [st EXCEPT ![i] = Xor64(@, st[j])]
RotateInPlace(st, i, n) == [st EXCEPT ![i] = rotate_left(@, n)]

\* ExactSipHash::sip_round, its fourteen statements from the innermost out
ExactSipRound(st) ==
    RotateInPlace(XorInto(XorInto(RotateInPlace(RotateInPlace(
    AddInto(AddInto(RotateInPlace(XorInto(XorInto(RotateInPlace(RotateInPlace(
    AddInto(AddInto(st, 1, 2), 3, 4),
    2, 13), 4, 16), 2, 1), 4, 3), 1, 32),
    3, 2), 1, 4),
    2, 17), 4, 21), 2, 3), 4, 1), 3, 32)

\* BitmapTrimmer::sip_round, its fourteen statements from the innermost out
BitmapSipRound(st) ==
    RotateInPlace(XorInto(RotateInPlace(AddInto(
    XorInto(RotateInPlace(AddInto(
    XorInto(RotateInPlace(AddInto(
    RotateInPlace(XorInto(RotateInPlace(AddInto(st, 1, 2), 2, 13), 2, 1), 1, 32),
    3, 4), 4, 16), 4, 3),
    1, 4), 4, 21), 4, 1),
    3, 2), 2, 17), 2, 3), 3, 32)

\* one of the six inlined "SipRound" blocks of siphash24_single
SingleSipRound(st) ==
    RotateInPlace(XorInto(XorInto(RotateInPlace(RotateInPlace(
    AddInto(AddInto(RotateInPlace(XorInto(XorInto(RotateInPlace(RotateInPlace(
    AddInto(AddInto(st, 1, 2), 3, 4),
    2, 13), 4, 16), 2, 1), 4, 3), 1, 32),
    3, 2), 1, 4),
    2, 17), 4, 21), 2, 3), 4, 1), 3, 32)

\* n successive rounds; comparing st makes it a value before the next round, so
\* that the rounds are evaluated one after the other
RECURSIVE ExactSipRounds(_, _)
ExactSipRounds(st, n) ==
    IF n = 0 \/ st = <<>> THEN st ELSE ExactSipRounds(ExactSipRound(st), n - 1)

RECURSIVE BitmapSipRounds(_, _)
BitmapSipRounds(st, n) ==
    IF n = 0 \/ st = <<>> THEN st ELSE BitmapSipRounds(BitmapSipRound(st), n - 1)

RECURSIVE SingleSipRounds(_, _)
SingleSipRounds(st, n) ==
    IF n = 0 \/ st = <<>> THEN st ELSE SingleSipRounds(SingleSipRound(st), n - 1)

XorAll(st) == Xor64(Xor64(st[1], st[2]), Xor64(st[3], st[4]))

\* ExactSipHash::hash_nonce
hash_nonce(keys, edge_bits, nonce) ==
    LET s1 == [keys EXCEPT ![4] = Xor64(@, nonce)]
        s2 == ExactSipRounds(s1, 2)
        s3 == [s2 EXCEPT ![1] = Xor64(@, nonce), ![3] = Xor64(@, U64(255))]
        s4 == ExactSipRounds(s3, 4)
    IN IF edge_bits = 32 THEN XorAll(s4) ELSE MaskBits(XorAll(s4), edge_bits)

\* BitmapTrimmer::siphash24_internal
siphash24_internal(key, nonce) ==
    LET s1 == [key EXCEPT ![4] = Xor64(@, nonce)]
        s2 == BitmapSipRounds(s1, 2)
        s3 == [s2 EXCEPT ![1] = Xor64(@, nonce), ![3] = Xor64(@, U64(255))]
        s4 == BitmapSipRounds(s3, 4)
    IN XorAll(s4)

\* BitmapTrimmer::siphash24; node_mask is (1u64 << edge_bits) - 1
siphash24(key, edge_bits, nonce) ==
    IF edge_bits = 32 THEN siphash24_internal(key, nonce)
    ELSE MaskBits(siphash24_internal(key, nonce), edge_bits)

\* the miner's siphash24_single
siphash24_single(keys, nonce, edge_bits) ==
    LET s1 == [keys EXCEPT ![4] = Xor64(@, nonce)]
        s2 == SingleSipRounds(s1, 2)
        s3 == [s2 EXCEPT ![3] = Xor64(@, U64(255))]
        s4 == SingleSipRounds(s3, 4)
        v0 == Xor64(Xor64(s4[1], s4[2]), Xor64(s4[3], s4[4]))
    IN IF edge_bits < 32 THEN MaskBits(v0, edge_bits) ELSE v0

\* One evaluation of the three routines on the same keys, nonce and edge_bits
MaxKey == 1        \* every key word is in 0..MaxKey
MaxNonce == 3      \* nonces are 0..MaxNonce
MIN_EDGE_BITS_CONFIG == 10
MAX_EDGE_BITS_CONFIG == 32

SipKeys ==
    {<<U64(k0), U64(k1), U64(k2), U64(k3)>> :
        k0 \in 0..MaxKey, k1 \in 0..MaxKey, k2 \in 0..MaxKey, k3 \in 0..MaxKey}
SipNonces == {U64(n) : n \in 0..MaxNonce}
SipEdgeBits == MIN_EDGE_BITS_CONFIG..MAX_EDGE_BITS_CONFIG

NodeOf(x) == [returned |-> TRUE, node |-> x]

SipStart(keys, nonce, edge_bits) ==
    /\ sip.pc = "idle"
    /\ sip' = [pc |-> "run", keys |-> keys, nonce |-> nonce, edge_bits |-> edge_bits,
               exact |-> NoResult, bitmap |-> NoResult, single |-> NoResult]
    /\ UNCHANGED <<bmp, cli, kdf, lean, gen, hcf, hcall, ccf, ccall, ver, trim>>

SipHashNonce ==
    /\ sip.pc = "run"
    /\ ~sip.exact.returned
    /\ sip' = [sip EXCEPT !.exact = NodeOf(hash_nonce(sip.keys, sip.edge_bits, sip.nonce))]
    /\ UNCHANGED <<bmp, cli, kdf, lean, gen, hcf, hcall, ccf, ccall, ver, trim>>

SipSiphash24 ==
    /\ sip.pc = "run"
    /\ ~sip.bitmap.returned
    /\ sip' = [sip EXCEPT !.bitmap = NodeOf(siphash24(sip.keys, sip.edge_bits, sip.nonce))]
    /\ UNCHANGED <<bmp, cli, kdf, lean, gen, hcf, hcall, ccf, ccall, ver, trim>>

SipSiphash24Single ==
    /\ sip.pc = "run"
    /\ ~sip.single.returned
    /\ sip' = [sip EXCEPT
                 !.single = NodeOf(siphash24_single(sip.keys, sip.nonce, sip.edge_bits))]
    /\ UNCHANGED <<bmp, cli, kdf, lean, gen, hcf, hcall, ccf, ccall, ver, trim>>

(***************************************************************************)
(* The trimmers (exact_trimming.rs, bitmap_trimming.rs).  A bitmap is the  *)
(* set of the positions of its set bits, position p being bit p % 64 (or   *)
(* p % 32) of word p / 64 (or p / 32), together with its number of words.  *)
(***************************************************************************)
EdgesWordBits == 64
ExactNodesWordBits == 32
BitmapNodesWordBits == 64

RECURSIVE SetToSeq(_)
SetToSeq(S) ==                         \* the elements of S in ascending order
    IF S = {} THEN <<>>
    ELSE LET m == CHOOSE x \in S : \A y \in S : x <= y
         IN <<m>> \o SetToSeq(S \ {m})

\* a ^ b on bit sets
SymDiff(A, B) == (A \ B) \cup (B \ A)

\* ExactTrimmer's number_of_edges is a u32, BitmapTrimmer's a u64
U32Bits == 32

\* `1 << edge_bits` on a u32 overflows for edge_bits >= 32: a build with
\* overflow checks panics there, a build without them shifts by edge_bits % 32
ShlOverflows(kind, edge_bits) == kind = "exact" /\ edge_bits >= U32Bits

\* ExactTrimmer::new / BitmapTrimmer::new with the siphash of `keys`, in a
\* build where `1 << edge_bits` does not panic
Trimmer_new(kind, keys, edge_bits) ==
    LET number_of_edges == IF kind = "exact" THEN Pow2(edge_bits % U32Bits)
                           ELSE Pow2(edge_bits)
        nodes_word_bits == IF kind = "exact" THEN ExactNodesWordBits
                           ELSE BitmapNodesWordBits
    IN [kind |-> kind,
        keys |-> keys,
        edge_bits |-> edge_bits,
        number_of_edges |-> number_of_edges,
        node_mask |-> number_of_edges - 1,
        edges_bitmap_len |-> (number_of_edges + (EdgesWordBits - 1)) \div EdgesWordBits,
        nodes_bitmap_len |-> (number_of_edges + (nodes_word_bits - 1)) \div nodes_word_bits,
        nodes_word_bits |-> nodes_word_bits,
        edges_bitmap |-> {},
        nodes_bitmap |-> {}]

\* initialize_edges_bitmap / generate_edges_bitmap: every word u64::MAX, then
\* the last word masked to its low 64 - excess_bits bits
initialize_edges_bitmap(t) ==
    LET excess_bits == t.edges_bitmap_len * EdgesWordBits - t.number_of_edges
        last_index == t.edges_bitmap_len - 1
    IN [t EXCEPT !.edges_bitmap =
          {p \in 0..(t.edges_bitmap_len * EdgesWordBits - 1) :
              \/ excess_bits = 0
              \/ p \div EdgesWordBits # last_index
              \/ p % EdgesWordBits < EdgesWordBits - excess_bits}]

\* set_bit_in_nodes_bitmap / set_bit_in_bitmap: ignored beyond the last word
\* (a negative index is a u32 of 2^31 or more, beyond every modelled bitmap)
NodeFits(t, index) == index >= 0 /\ index \div t.nodes_word_bits < t.nodes_bitmap_len
\* is_bit_set_in_nodes_bitmap / is_bit_set_in_bitmap
IsNodeSet(t, index) == NodeFits(t, index) /\ index \in t.nodes_bitmap

\* the u64 a trimmer hashes nonce `nonce` to: ExactTrimmer calls
\* siphash.hash_nonce, BitmapTrimmer its own siphash24
TrimHash(t, nonce) ==
    IF t.kind = "exact" THEN hash_nonce(t.keys, t.edge_bits, U64(nonce))
    ELSE siphash24(t.keys, t.edge_bits, U64(nonce))

\* the node index the steps use: ExactTrimmer casts to u32, BitmapTrimmer
\* keeps the u64 (below 2^31 for the edge_bits it is run with here)
TrimNode(t, nonce) ==
    IF t.kind = "exact" THEN AsU32(TrimHash(t, nonce)) ELSE ToInt(TrimHash(t, nonce))

\* the edge index a step computes for the set bit at position p: ExactTrimmer
\* word_index * 64 + bit_index; BitmapTrimmer bitmap_index * 64 +
\* bit_index * 64 + bit_pos, its bit_index counting the set bits of the word
\* below p
EdgeIndexOfBit(t, p) ==
    IF t.kind = "exact" THEN p
    ELSE LET bitmap_index == p \div EdgesWordBits
             bit_pos == p % EdgesWordBits
             bit_index == Cardinality({q \in t.edges_bitmap :
                                         q \div EdgesWordBits = bitmap_index /\ q < p})
         IN bitmap_index * EdgesWordBits + bit_index * EdgesWordBits + bit_pos

\* the set bits whose computed edge index passes `edge_index < number_of_edges`
HandledBits(t) == {p \in t.edges_bitmap : EdgeIndexOfBit(t, p) < t.number_of_edges}

\* ExactTrimmer::clear_nodes_bitmap, BitmapTrimmer's self.nodes_bitmap.fill(0)
\* clear_nodes_bitmap without its loop: the marks of the round before stay
clear_nodes_bitmap_keeping_marks(t) == t

clear_nodes_bitmap(t) == [t EXCEPT !.nodes_bitmap = {}]

\* clear_nodes_bitmap and trim_edges_step_one: ExactTrimmer marks the U node
\* of every edge index, BitmapTrimmer of the handled set bits
trim_edges_step_one(t) ==
    LET indices == IF t.kind = "exact" THEN 0..(t.number_of_edges - 1)
                   ELSE {EdgeIndexOfBit(t, p) : p \in HandledBits(t)}
        nodes == {TrimNode(t, e * 2) : e \in indices}
    IN [t EXCEPT !.nodes_bitmap =
          clear_nodes_bitmap(t).nodes_bitmap \cup {n \in nodes : NodeFits(t, n)}]

\* trim_edges_step_two: new word = the handled set bits whose U node has its
\* pair marked
trim_edges_step_two(t) ==
    [t EXCEPT !.edges_bitmap =
        {p \in HandledBits(t) : IsNodeSet(t, Xor1(TrimNode(t, EdgeIndexOfBit(t, p) * 2)))}]

\* clear_nodes_bitmap and trim_edges_step_three: mark the V node of the
\* handled set bits
trim_edges_step_three(t) ==
    LET nodes == {TrimNode(t, EdgeIndexOfBit(t, p) * 2 + 1) : p \in HandledBits(t)}
    IN [t EXCEPT !.nodes_bitmap =
          clear_nodes_bitmap(t).nodes_bitmap \cup {n \in nodes : NodeFits(t, n)}]

\* trim_edges_step_four with ExactTrimmer's `(word & (1u64 << bit_index)) != 0`
\* test left out: every bit index below number_of_edges whose V node has no
\* pair marked is toggled, set or not
trim_edges_step_four_toggling_unset_bits(t) ==
    [t EXCEPT !.edges_bitmap =
        IF t.kind = "exact"
        THEN SymDiff(@, {p \in 0..(t.number_of_edges - 1) :
                           ~IsNodeSet(t, Xor1(TrimNode(t, p * 2 + 1)))})
        ELSE {p \in HandledBits(t) :
                IsNodeSet(t, Xor1(TrimNode(t, EdgeIndexOfBit(t, p) * 2 + 1)))}]

\* trim_edges_step_four: ExactTrimmer starts from the word and toggles
\* (new_edges ^= 1 << bit_index) the handled set bits whose V node has no pair
\* marked; BitmapTrimmer starts from 0 and sets the handled set bits whose V
\* node has its pair marked
trim_edges_step_four(t) ==
    LET paired(p) == IsNodeSet(t, Xor1(TrimNode(t, EdgeIndexOfBit(t, p) * 2 + 1)))
    IN [t EXCEPT !.edges_bitmap =
          IF t.kind = "exact"
          THEN SymDiff(@, {p \in HandledBits(t) : ~paired(p)})
          ELSE {p \in HandledBits(t) : paired(p)}]

\* generate_final_edges: one Edge { u, v } per handled set bit, in ascending
\* bit position; the edge index is not part of the entry
RECURSIVE FinalEdges(_, _)
FinalEdges(t, bits) ==
    IF bits = <<>> THEN <<>>
    ELSE <<Edge(TrimHash(t, EdgeIndexOfBit(t, Head(bits)) * 2),
                TrimHash(t, EdgeIndexOfBit(t, Head(bits)) * 2 + 1))>>
         \o FinalEdges(t, Tail(bits))

generate_final_edges(t) == FinalEdges(t, SetToSeq(HandledBits(t)))

\* One trim_edges call on a new trimmer
MaxTrimKey == 6          \* the keys are <<k, 0, 0, 0>>, k in 0..MaxTrimKey
MaxTrimEdgeBits == 4     \* edge_bits is in 2..MaxTrimEdgeBits
MaxTrimmingRounds == 3   \* trimming_rounds is in 0..MaxTrimmingRounds

TrimKeys == {<<U64(k), U64(0), U64(0), U64(0)>> : k \in 0..MaxTrimKey}
TrimEdgeBits == 2..MaxTrimEdgeBits
TrimKinds == {"exact", "bitmap"}
\* the trimmers constructed: both kinds with few edge bits, and ExactTrimmer
\* with the largest edge_bits of a valid configuration
TrimmersBuilt ==
    {<<kind, edge_bits>> : kind \in TrimKinds, edge_bits \in TrimEdgeBits}
        \cup {<<"exact", MAX_EDGE_BITS_CONFIG>>}

\* trim_edges(siphash, trimming_rounds) on the trimmer t up to the first test
\* of the `for round` loop: the edges bitmap is initialized.  `removed`
\* records, for the rounds done, how many edges each of them cleared, `steps`
\* the steps called so far, `attempt` the number of calls made on the trimmer,
\* `stale_nodes` the marks that earlier calls left in the nodes bitmap.
TrimCall(t, trimming_rounds, attempt) ==
    [pc |-> "round",
     t |-> initialize_edges_bitmap(t),
     stale_nodes |-> t.nodes_bitmap,
     trimming_rounds |-> trimming_rounds,
     round |-> 0,
     removed |-> <<>>,
     steps |-> <<>>,
     attempt |-> attempt,
     result |-> NoResult]

\* one round of trim_edges on the trimmer t: the one-element set of the
\* trimmer after its mark step and its sweep step
TrimRound(t, round) ==
    {IF round = 0 THEN trim_edges_step_two(marked) ELSE trim_edges_step_four(marked) :
        marked \in {IF round = 0 THEN trim_edges_step_one(t) ELSE trim_edges_step_three(t)}}

\* the `for round` loop from round `round` on, on the one trimmer of ts
RECURSIVE TrimRoundsFrom(_, _, _)
TrimRoundsFrom(ts, round, trimming_rounds) ==
    IF ~(round < trimming_rounds) THEN ts
    ELSE TrimRoundsFrom(UNION {TrimRound(t, round) : t \in ts}, round + 1, trimming_rounds)

\* the whole trim_edges call on the trimmer t: the one-element set of the
\* list it returns
trim_edges(t, trimming_rounds) ==
    {generate_final_edges(trimmed) :
        trimmed \in TrimRoundsFrom({initialize_edges_bitmap(t)}, 0, trimming_rounds)}

\* new(edge_bits), which panics on an overflowing shift in a build with
\* overflow checks, and the first trim_edges call on the new trimmer
TrimEdges(kind, keys, edge_bits, trimming_rounds, overflow_checks) ==
    /\ trim.pc = "idle"
    /\ trim' = IF overflow_checks /\ ShlOverflows(kind, edge_bits)
               THEN [pc |-> "panicked"]
               ELSE TrimCall(Trimmer_new(kind, keys, edge_bits), trimming_rounds, 1)
    /\ UNCHANGED <<bmp, cli, kdf, lean, gen, hcf, hcall, ccf, ccall, ver, sip>>

\* the mark half of a round: step one in round 0, step three afterwards
TrimMark ==
    /\ trim.pc = "round"
    /\ trim.round < trim.trimming_rounds
    /\ trim' = [trim EXCEPT
                  !.pc = "sweep",
                  !.steps = Append(@, IF trim.round = 0 THEN "trim_edges_step_one"
                                      ELSE "trim_edges_step_three"),
                  !.t = IF trim.round = 0 THEN trim_edges_step_one(@)
                        ELSE trim_edges_step_three(@)]
    /\ UNCHANGED <<bmp, cli, kdf, lean, gen, hcf, hcall, ccf, ccall, ver, sip>>

\* the sweep half of a round: step two in round 0, step four afterwards
TrimSweep ==
    /\ trim.pc = "sweep"
    /\ LET swept == IF trim.round = 0 THEN trim_edges_step_two(trim.t)
                    ELSE trim_edges_step_four(trim.t)
       IN trim' = [trim EXCEPT
                     !.pc = "round",
                     !.t = swept,
                     !.round = @ + 1,
                     !.steps = Append(@, IF trim.round = 0 THEN "trim_edges_step_two"
                                         ELSE "trim_edges_step_four"),
                     !.removed = Append(@, Cardinality(trim.t.edges_bitmap)
                                             - Cardinality(swept.edges_bitmap))]
    /\ UNCHANGED <<bmp, cli, kdf, lean, gen, hcf, hcall, ccf, ccall, ver, sip>>

\* the `for round` loop ends: generate_final_edges, Ok(edges)
TrimReturn ==
    /\ trim.pc = "round"
    /\ ~(trim.round < trim.trimming_rounds)
    /\ trim' = [trim EXCEPT !.pc = "done", !.result = OkSome(generate_final_edges(trim.t))]
    /\ UNCHANGED <<bmp, cli, kdf, lean, gen, hcf, hcall, ccf, ccall, ver, sip>>

\* the survivors of a finished trim_edges call go to HashCycleFinder::find_cycle
FindCycleOfSurvivors ==
    /\ trim.pc = "done"
    /\ HcfFindCycle(trim.result.value)

\* the next attempt on the same trimmer and the same finder: trim_edges is
\* called again, with the siphash of other keys, and the finder waits for
\* the survivors
MaxAttempts == 2         \* a trimmer and a finder serve at most MaxAttempts attempts

TrimEdgesAgain(keys, trimming_rounds) ==
    /\ trim.pc = "done"
    /\ hcall.pc = "done"
    /\ trim.attempt < MaxAttempts
    /\ trim' = TrimCall([trim.t EXCEPT !.keys = keys], trimming_rounds, trim.attempt + 1)
    /\ hcall' = [pc |-> "waiting", attempt |-> hcall.attempt]
    /\ UNCHANGED <<bmp, cli, kdf, lean, gen, hcf, ccf, ccall, ver, sip>>

(***************************************************************************)
(* Idle values of the components, and the specification of the             *)
(* HashCycleFinder: one find_cycle call on a fresh finder.                 *)
(***************************************************************************)
VerIdle == [pc |-> "idle"]
SipIdle == [pc |-> "idle"]
TrimIdle == [pc |-> "idle"]
CliIdle == [pc |-> "idle"]
KdfIdle == [pc |-> "idle"]
LeanIdle == [pc |-> "idle"]
GenIdle == [pc |-> "idle"]
BmpIdle == [pc |-> "idle"]

InitFinder ==
    /\ hcf = HashCycleFinder_new
    /\ hcall = HcallIdle
    /\ ccf = CppCycleFinder_new
    /\ ccall = CcallIdle
    /\ ver = VerIdle
    /\ sip = SipIdle
    /\ trim = TrimIdle
    /\ cli = CliIdle
    /\ kdf = KdfIdle
    /\ lean = LeanIdle
    /\ gen = GenIdle
    /\ bmp = BmpIdle

NextFinder ==
    \/ \E edges \in FinderInputs : HcfFindCycle(edges)
    \/ HcfProcessEdge
    \/ HcfReturnNone

SpecFinder == InitFinder /\ [][NextFinder]_vars

(***************************************************************************)
(* The specification of the CppCycleFinder: one get_cuckatoo_solution call *)
(* on a reset finder, in a build with or without overflow checks.          *)
(***************************************************************************)
InitCpp == InitFinder

NextCpp ==
    \/ \E edges \in FinderInputs, overflow_checks \in BOOLEAN :
          CcfGetCuckatooSolution(edges, overflow_checks)
    \/ CcfProcessEdge
    \/ CcfReturnFalse

SpecCpp == InitCpp /\ [][NextCpp]_vars

(***************************************************************************)
(* The specification of the two finders on one list: find_cycle on a new   *)
(* HashCycleFinder, then get_cuckatoo_solution on a reset CppCycleFinder   *)
(* with the flat array of the same list.                                   *)
(***************************************************************************)
InitFinders == InitFinder

NextFinders ==
    \/ NextFinder
    \/ \E overflow_checks \in BOOLEAN :
          /\ hcall.pc = "done"
          /\ CcfGetCuckatooSolution(hcall.edges, overflow_checks)
    \/ CcfProcessEdge
    \/ CcfReturnFalse

SpecFinders == InitFinders /\ [][NextFinders]_vars

(***************************************************************************)
(* The specification of the CycleVerifier: one verify_cycle call.          *)
(***************************************************************************)
InitVerifier == InitFinder

NextVerifier ==
    \/ \E edges \in VerifierInputs : VerVerifyCycle(edges)
    \/ find_cycle_from_edge
    \/ dfs_edge_cycle
    \/ DfsBacktrack
    \/ VerReturnNone

SpecVerifier == InitVerifier /\ [][NextVerifier]_vars

(***************************************************************************)
(* The specification of the SipHash-2-4 node routines.                     *)
(***************************************************************************)
InitSip == InitFinder

NextSip ==
    \/ \E keys \in SipKeys, nonce \in SipNonces, edge_bits \in SipEdgeBits :
          SipStart(keys, nonce, edge_bits)
    \/ SipHashNonce
    \/ SipSiphash24
    \/ SipSiphash24Single

SpecSip == InitSip /\ [][NextSip]_vars

(***************************************************************************)
(* The specification of the trimmers: one trim_edges call.                 *)
(***************************************************************************)
InitTrim == InitFinder

NextTrim ==
    \/ \E built \in TrimmersBuilt, keys \in TrimKeys,
          trimming_rounds \in 0..MaxTrimmingRounds, overflow_checks \in BOOLEAN :
          TrimEdges(built[1], keys, built[2], trimming_rounds, overflow_checks)
    \/ TrimMark
    \/ TrimSweep
    \/ TrimReturn

SpecTrim == InitTrim /\ [][NextTrim]_vars

(***************************************************************************)
(* The specification of the pipeline: a trim_edges call, then find_cycle   *)
(* on its survivors.                                                       *)
(***************************************************************************)
NextPipeline ==
    \/ NextTrim
    \/ FindCycleOfSurvivors
    \/ HcfProcessEdge
    \/ HcfReturnNone

SpecPipeline == InitTrim /\ [][NextPipeline]_vars

(***************************************************************************)
(* The specification of repeated attempts: one ExactTrimmer and one        *)
(* HashCycleFinder, constructed once, serve one attempt after the other.   *)
(***************************************************************************)
MaxAttemptKey == 1        \* the keys are <<k, 0, 0, 0>>, k in 0..MaxAttemptKey
MaxAttemptEdgeBits == 3   \* edge_bits is in 2..MaxAttemptEdgeBits
MaxAttemptRounds == 2     \* trimming_rounds is in 0..MaxAttemptRounds

AttemptKeys == {<<U64(k), U64(0), U64(0), U64(0)>> : k \in 0..MaxAttemptKey}

NextAttempts ==
    \/ \E keys \in AttemptKeys, edge_bits \in 2..MaxAttemptEdgeBits,
          trimming_rounds \in 0..MaxAttemptRounds :
          TrimEdges("exact", keys, edge_bits, trimming_rounds, FALSE)
    \/ \E keys \in AttemptKeys, trimming_rounds \in 0..MaxAttemptRounds :
          TrimEdgesAgain(keys, trimming_rounds)
    \/ TrimMark
    \/ TrimSweep
    \/ TrimReturn
    \/ FindCycleOfSurvivors
    \/ HcfProcessEdge
    \/ HcfReturnNone

SpecAttempts == InitTrim /\ [][NextAttempts]_vars

(***************************************************************************)
(* The edge_bits validation routines (types.rs, constants.rs) and the      *)
(* miner's main with its argument parser (main.rs).  A command-line        *)
(* argument is the sequence of its characters.                             *)
(***************************************************************************)
OptEdgeBits == <<"-", "-", "e", "d", "g", "e", "-", "b", "i", "t", "s">>
OptMode == <<"-", "-", "m", "o", "d", "e">>
OptTuning == <<"-", "-", "t", "u", "n", "i", "n", "g">>
OptTrimmingRounds == <<"-", "-", "t", "r", "i", "m", "m", "i", "n", "g", "-", "r", "o", "u", "n", "d", "s">>
OptHelp == <<"-", "-", "h", "e", "l", "p">>
OptH == <<"-", "h">>
ProgramName == <<"c", "u", "c", "k", "a", "t", "o", "o", "-", "m", "i", "n", "e", "r">>

DEFAULT_EDGE_BITS_ARG == 12
DEFAULT_TRIMMING_ROUNDS == 90

Digits == <<"0", "1", "2", "3", "4", "5", "6", "7", "8", "9">>
IsDigit(c) == \E d \in 1..Len(Digits) : Digits[d] = c
DigitValue(c) == (CHOOSE d \in 1..Len(Digits) : Digits[d] = c) - 1

RECURSIVE DecimalValue(_, _)
DecimalValue(digits, acc) ==
    IF digits = <<>> THEN acc
    ELSE DecimalValue(Tail(digits), acc * Len(Digits) + DigitValue(Head(digits)))

Parsed(x) == [ok |-> TRUE, value |-> x]
ParseError == [ok |-> FALSE]

\* str::parse::<u32>: an optional "+", then one or more decimal digits (the
\* arguments here are too short for the value to exceed u32::MAX); anything
\* else, a "-" included, is an error
ParseU32(arg) ==
    LET digits == IF arg # <<>> /\ Head(arg) = "+" THEN Tail(arg) ELSE arg
    IN IF digits # <<>> /\ \A i \in 1..Len(digits) : IsDigit(digits[i])
       THEN Parsed(DecimalValue(digits, 0))
       ELSE ParseError

\* TrimmingMode::from_str on a lower-case argument
ParseTrimmingMode(arg) ==
    IF arg = <<"l", "e", "a", "n">> THEN Parsed("Lean")
    ELSE IF arg = <<"m", "e", "a", "n">> THEN Parsed("Mean")
    ELSE IF arg = <<"s", "l", "e", "a", "n">> THEN Parsed("Slean")
    ELSE ParseError

Config(edge_bits, trimming_rounds, mode, tuning) ==
    [edge_bits |-> edge_bits, trimming_rounds |-> trimming_rounds,
     mode |-> mode, tuning |-> tuning]

\* Config::new
Config_new(edge_bits) == Config(edge_bits, DEFAULT_TRIMMING_ROUNDS, "Lean", FALSE)

\* Config::validate: Ok(()) or Err(InvalidEdgeBits)
Config_validate(config) ==
    ~(config.edge_bits < MIN_EDGE_BITS_CONFIG \/ config.edge_bits > MAX_EDGE_BITS_CONFIG)

\* constants.rs
MIN_EDGE_BITS == 4
MAX_EDGE_BITS == 63

\* constants::validate_edge_bits: Ok(()) or Err(message)
validate_edge_bits(edge_bits) ==
    ~(edge_bits < MIN_EDGE_BITS \/ edge_bits > MAX_EDGE_BITS)

\* the while loop of parse_args from index i (args[i] is args[i + 1] here):
\* Ok(Config), Err, or the process exit of --help
ArgsOk(config) == [outcome |-> "ok", config |-> config]
ArgsErr == [outcome |-> "err"]
ArgsExit == [outcome |-> "exit"]

RECURSIVE ParseArgsFrom(_, _, _)
ParseArgsFrom(args, i, c) ==
    IF ~(i < Len(args)) THEN ArgsOk(c)
    ELSE LET arg == args[i + 1]
             has_value == i + 1 < Len(args)
         IN IF arg = OptEdgeBits
            THEN IF ~has_value THEN ArgsErr
                 ELSE IF ~ParseU32(args[i + 2]).ok THEN ArgsErr
                 ELSE ParseArgsFrom(args, i + 2,
                                    [c EXCEPT !.edge_bits = ParseU32(args[i + 2]).value])
            ELSE IF arg = OptMode
            THEN IF ~has_value THEN ArgsErr
                 ELSE IF ~ParseTrimmingMode(args[i + 2]).ok THEN ArgsErr
                 ELSE ParseArgsFrom(args, i + 2,
                                    [c EXCEPT !.mode = ParseTrimmingMode(args[i + 2]).value])
            ELSE IF arg = OptTuning
            THEN ParseArgsFrom(args, i + 1, [c EXCEPT !.tuning = TRUE])
            ELSE IF arg = OptTrimmingRounds
            THEN IF ~has_value THEN ArgsErr
                 ELSE IF ~ParseU32(args[i + 2]).ok THEN ArgsErr
                 ELSE ParseArgsFrom(args, i + 2,
                                    [c EXCEPT !.trimming_rounds = ParseU32(args[i + 2]).value])
            ELSE IF arg = OptHelp \/ arg = OptH
            THEN ArgsExit
            ELSE IF arg # <<>> /\ Head(arg) = "-"
            THEN ArgsErr
            ELSE ParseArgsFrom(args, i + 1, c)

parse_args(args) ==
    ParseArgsFrom(args, 1, Config(DEFAULT_EDGE_BITS_ARG, DEFAULT_TRIMMING_ROUNDS, "Lean", FALSE))

MaxArgs == 4             \* at most MaxArgs arguments after the program name
MaxEdgeBitsTried == 70   \* the validation routines are called with 0..MaxEdgeBitsTried

ArgWords ==
    {OptEdgeBits, OptMode, OptTuning, OptTrimmingRounds, OptHelp,
     <<"l", "e", "a", "n">>, <<"0">>, <<"9">>, <<"1", "2">>, <<"-", "1">>}
CommandLines ==
    {<<ProgramName>> \o rest : rest \in UNION {[1..n -> ArgWords] : n \in 0..MaxArgs}}

\* Config::new(edge_bits).validate()
ConfigValidate(edge_bits) ==
    /\ cli.pc = "idle"
    /\ cli' = [pc |-> "returned", routine |-> "Config::validate",
               edge_bits |-> edge_bits, ok |-> Config_validate(Config_new(edge_bits))]
    /\ UNCHANGED <<bmp, hcf, hcall, ccf, ccall, ver, sip, trim, kdf, lean, gen>>

\* constants::validate_edge_bits(edge_bits)
ValidateEdgeBits(edge_bits) ==
    /\ cli.pc = "idle"
    /\ cli' = [pc |-> "returned", routine |-> "validate_edge_bits",
               edge_bits |-> edge_bits, ok |-> validate_edge_bits(edge_bits)]
    /\ UNCHANGED <<bmp, hcf, hcall, ccf, ccall, ver, sip, trim, kdf, lean, gen>>

\* main: `let config = parse_args(&args)?;`
MainParseArgs(args) ==
    /\ cli.pc = "idle"
    /\ cli' = IF parse_args(args).outcome = "ok"
              THEN [pc |-> "parsed", routine |-> "main", config |-> parse_args(args).config]
              ELSE IF parse_args(args).outcome = "exit"
              THEN [pc |-> "exited", routine |-> "main"]
              ELSE [pc |-> "returned", routine |-> "main", ok |-> FALSE]
    /\ UNCHANGED <<bmp, hcf, hcall, ccf, ccall, ver, sip, trim, kdf, lean, gen>>

\* main: `config.validate()?;`, after which the SipHash keys are derived
MainValidate ==
    /\ cli.pc = "parsed"
    /\ cli' = IF Config_validate(cli.config)
              THEN [cli EXCEPT !.pc = "deriving_keys"]
              ELSE [pc |-> "returned", routine |-> "main", ok |-> FALSE]
    /\ UNCHANGED <<bmp, hcf, hcall, ccf, ccall, ver, sip, trim, kdf, lean, gen>>

\* main from the key derivation to its Ok(()): blake2b, the edges of
\* generate_edges_cpp_style, the SipHash test and the test 42-cycle
MainMine ==
    /\ cli.pc = "deriving_keys"
    /\ cli' = [pc |-> "returned", routine |-> "main", ok |-> TRUE, config |-> cli.config]
    /\ UNCHANGED <<bmp, hcf, hcall, ccf, ccall, ver, sip, trim, kdf, lean, gen>>

(***************************************************************************)
(* SipHash::hash_header (hashing.rs): the edge generator with its own      *)
(* SipHash-2-4 over the header bytes.  A node it returns is below 2^31 and *)
(* is kept as its value; a byte is 0..255.                                 *)
(***************************************************************************)
\* SipHash::new(): the default key 0x736f6d6570736575, 0x646f72616e646f6d,
\* 0x6c7967656e657261, 0x7465646279746573
SipHash_new ==
    <<<<25973, 28787, 28005, 29551>>,
      <<28525, 28260, 29281, 25711>>,
      <<29281, 28261, 26469, 27769>>,
      <<25971, 31092, 25698, 29797>>>>

ByteSize == 256
ChunkBytes == 8

ByteAt(bytes, i) == IF i <= Len(bytes) THEN bytes[i] ELSE 0
\* u64::from_le_bytes of up to eight bytes, the missing ones 0
FromLeBytes(bytes) ==
    <<ByteAt(bytes, 1) + ByteSize * ByteAt(bytes, 2),
      ByteAt(bytes, 3) + ByteSize * ByteAt(bytes, 4),
      ByteAt(bytes, 5) + ByteSize * ByteAt(bytes, 6),
      ByteAt(bytes, 7) + ByteSize * ByteAt(bytes, 8)>>

\* SipHash::sip_round of hashing.rs on v0..v3 (here st[1..4]), its fourteen
\* statements from the innermost out
HeaderSipRound(st) ==
    RotateInPlace(XorInto(XorInto(RotateInPlace(RotateInPlace(
    AddInto(AddInto(RotateInPlace(XorInto(XorInto(RotateInPlace(RotateInPlace(
    AddInto(AddInto(st, 1, 2), 3, 4),
    2, 13), 4, 16), 2, 1), 4, 3), 1, 32),
    3, 2), 1, 4),
    2, 17), 4, 21), 2, 3), 4, 1), 3, 32)

RECURSIVE HeaderSipRounds(_, _)
HeaderSipRounds(st, n) ==
    IF n = 0 \/ st = <<>> THEN st ELSE HeaderSipRounds(HeaderSipRound(st), n - 1)

\* v3 ^= m; two rounds; v0 ^= m
Compress(st, m) ==
    XorInto(HeaderSipRounds(XorInto(<<st[1], st[2], st[3], st[4], m>>, 4, 5), 2), 1, 5)

\* the `while i + 8 <= data.len()` loop from byte i (data[i] is data[i + 1] here)
RECURSIVE CompressChunks(_, _, _)
CompressChunks(st, data, i) ==
    IF ~(i + ChunkBytes <= Len(data)) \/ st = <<>> THEN st
    ELSE CompressChunks(Compress(st, FromLeBytes(SubSeq(data, i + 1, i + ChunkBytes))),
                        data, i + ChunkBytes)

\* the last word: the remaining bytes, and (edge_index & 0xFF) << 56
LastWord(data, edge_index) ==
    LET whole == (Len(data) \div ChunkBytes) * ChunkBytes
        rest == SubSeq(data, whole + 1, Len(data))
    IN FromLeBytes([i \in 1..ChunkBytes |->
                      IF i = ChunkBytes THEN edge_index % ByteSize ELSE ByteAt(rest, i)])

\* SipHash::siphash24(data, nonce, edge_index) with the key `k`
HeaderSiphash24(k, data, nonce, edge_index) ==
    LET s0 == <<k[1], k[2], Xor64(k[3], U64(edge_index)), Xor64(k[4], nonce)>>
        s1 == CompressChunks(s0, data, 0)
        s2 == Compress(s1, LastWord(data, edge_index))
        s3 == <<s2[1], s2[2], Xor64(s2[3], U64(255)), s2[4]>>
        s4 == HeaderSipRounds(s3, 4)
    IN XorAll(s4)

\* the test at the head of hash_header: Err(InvalidEdgeBits) or go on
hash_header_rejects(edge_bits) ==
    edge_bits < MIN_EDGE_BITS_CONFIG \/ edge_bits > MAX_EDGE_BITS_CONFIG

\* Edge { u, v } with derive(Ord): by u, then by v
EdgeLess(a, b) == a.u < b.u \/ (a.u = b.u /\ a.v < b.v)

Header(bytes, nonce) == [bytes |-> bytes, nonce |-> nonce]

MaxHeaderByte == 1       \* header bytes are 0..MaxHeaderByte
MaxHeaderLen == 1        \* headers have 0..MaxHeaderLen bytes
MaxHeaderNonce == 1      \* header nonces are 0..MaxHeaderNonce

GenHeaders ==
    {Header(bytes, U64(nonce)) :
        bytes \in UNION {[1..n -> 0..MaxHeaderByte] : n \in 0..MaxHeaderLen},
        nonce \in 0..MaxHeaderNonce}
\* the smallest edge_bits hash_header runs with, and the values next to the
\* ends of its range
GenEdgeBits ==
    {MIN_EDGE_BITS_CONFIG - 1, MIN_EDGE_BITS_CONFIG, MAX_EDGE_BITS_CONFIG + 1}

\* hash_header up to the first test of its for loop
GenHashHeader(k, header, edge_bits) ==
    /\ gen.pc = "idle"
    /\ gen' = IF hash_header_rejects(edge_bits)
              THEN [pc |-> "done", edge_bits |-> edge_bits, ok |-> FALSE]
              ELSE [pc |-> "loop", edge_bits |-> edge_bits, k |-> k, header |-> header,
                    edge_count |-> Pow2(edge_bits),
                    node_count |-> Pow2(edge_bits - 1),
                    i |-> 0, edges |-> <<>>, edge_map |-> {}]
    /\ UNCHANGED <<bmp, hcf, hcall, ccf, ccall, ver, sip, trim, cli, kdf, lean>>

\* the edge of index i as hash_header builds it: both hashes reduced with
\* node_count - 1, the smaller node first
GenEdge(g) ==
    LET u == ToInt(MaskBits(HeaderSiphash24(g.k, g.header.bytes, g.header.nonce, 2 * g.i),
                            g.edge_bits - 1))
        v == ToInt(MaskBits(HeaderSiphash24(g.k, g.header.bytes, g.header.nonce, 2 * g.i + 1),
                            g.edge_bits - 1))
    IN IF u < v THEN Edge(u, v) ELSE Edge(v, u)

\* one iteration of the for loop: the edge is pushed unless edge_map has it
\* (edge_map is kept as the set of its keys: its values are never read)
GenAddEdge(g, edge) ==
    [g EXCEPT !.i = @ + 1,
              !.edges = IF edge \in g.edge_map THEN @ ELSE Append(@, edge),
              !.edge_map = @ \cup {edge}]

GenNextEdge ==
    /\ gen.pc = "loop"
    /\ gen.i < gen.edge_count
    /\ gen' = GenAddEdge(gen, GenEdge(gen))
    /\ UNCHANGED <<bmp, hcf, hcall, ccf, ccall, ver, sip, trim, cli, kdf, lean>>

\* the loop ends: edges.sort(), Ok(edges)
GenReturn ==
    /\ gen.pc = "loop"
    /\ ~(gen.i < gen.edge_count)
    /\ gen' = [pc |-> "done", edge_bits |-> gen.edge_bits, ok |-> TRUE,
               k |-> gen.k, header |-> gen.header, edge_count |-> gen.edge_count,
               edges |-> SortSeq(gen.edges, EdgeLess)]
    /\ UNCHANGED <<bmp, hcf, hcall, ccf, ccall, ver, sip, trim, cli, kdf, lean>>

\* hash_header up to the end of its edge_bits test
HashHeaderValidation(edge_bits) ==
    /\ cli.pc = "idle"
    /\ cli' = [pc |-> "returned", routine |-> "SipHash::hash_header",
               edge_bits |-> edge_bits, ok |-> ~hash_header_rejects(edge_bits)]
    /\ UNCHANGED <<bmp, hcf, hcall, ccf, ccall, ver, sip, trim, kdf, lean, gen>>

(***************************************************************************)
(* The specification of the validation routines and of main, and the       *)
(* specification of hash_header.                                           *)
(***************************************************************************)
NextCli ==
    \/ \E edge_bits \in 0..MaxEdgeBitsTried : ConfigValidate(edge_bits)
    \/ \E edge_bits \in 0..MaxEdgeBitsTried : ValidateEdgeBits(edge_bits)
    \/ \E edge_bits \in 0..MaxEdgeBitsTried : HashHeaderValidation(edge_bits)
    \/ \E args \in CommandLines : MainParseArgs(args)
    \/ MainValidate
    \/ MainMine

SpecCli == InitFinder /\ [][NextCli]_vars

NextGen ==
    \/ \E header \in GenHeaders, edge_bits \in GenEdgeBits :
          GenHashHeader(SipHash_new, header, edge_bits)
    \/ GenNextEdge
    \/ GenReturn

SpecGen == InitFinder /\ [][NextGen]_vars

(***************************************************************************)
(* Key derivation (blake2b.rs): a multiplicative mix of the header bytes   *)
(* and the nonce.                                                          *)
(***************************************************************************)
\* x * c mod 2^64 for a byte c: limb by limb with the carry
MulByte(x, c) ==
    LET p1 == x[1] * c
        p2 == x[2] * c + p1 \div Limb
        p3 == x[3] * c + p2 \div Limb
        p4 == x[4] * c + p3 \div Limb
    IN <<p1 % Limb, p2 % Limb, p3 % Limb, p4 % Limb>>

\* x << bits for 0 <= bits < 64: the rotation with its low bits cleared
Shl(x, bits) ==
    IF bits = 0 THEN x
    ELSE Xor64(rotate_left(x, bits), MaskBits(rotate_left(x, bits), bits))

\* 0x9e3779b97f4a7c15, its bytes least significant first
MixMultiplier == <<21, 124, 74, 127, 185, 121, 55, 158>>

\* the sum of (x * byte j of the multiplier) << 8 (j - 1), from byte j on
RECURSIVE MulFrom(_, _, _)
MulFrom(x, j, acc) ==
    IF j > Len(MixMultiplier) \/ acc = <<>> THEN acc
    ELSE MulFrom(x, j + 1,
                 wrapping_add(acc, Shl(MulByte(x, MixMultiplier[j]), 8 * (j - 1))))

\* hash_state.wrapping_mul(0x9e3779b97f4a7c15)
wrapping_mul(x) == MulFrom(x, 1, U64(0))

\* multiply, xor the word in, rotate: one byte of the header or the nonce
Mix(hash_state, word) == rotate_left(Xor64(wrapping_mul(hash_state), word), 13)

RECURSIVE MixHeader(_, _, _)
MixHeader(hash_state, header, i) ==
    IF i > Len(header) \/ hash_state = <<>> THEN hash_state
    ELSE MixHeader(Mix(hash_state, U64(header[i])), header, i + 1)

\* the `for i in 0..4` loop: each key is the state multiplied and rotated
NextKey(hash_state) == rotate_left(wrapping_mul(hash_state), 13)

blake2b(header, nonce) ==
    <<NextKey(Mix(MixHeader(U64(0), header, 1), nonce)),
      NextKey(NextKey(Mix(MixHeader(U64(0), header, 1), nonce))),
      NextKey(NextKey(NextKey(Mix(MixHeader(U64(0), header, 1), nonce)))),
      NextKey(NextKey(NextKey(NextKey(Mix(MixHeader(U64(0), header, 1), nonce)))))>>

MaxKdfHeaderLen == 2     \* headers have 0..MaxKdfHeaderLen bytes
MaxKdfNonce == 1         \* nonces are 0..MaxKdfNonce
\* the header bytes tried: the smallest two and the largest
KdfBytes == {0, 1, ByteSize - 1}
KdfHeaders == UNION {[1..n -> KdfBytes] : n \in 0..MaxKdfHeaderLen}

\* two derivations are set up: the headers h1 and h2 with the same nonce
KdfStart(h1, h2, nonce) ==
    /\ kdf.pc = "idle"
    /\ kdf' = [pc |-> "first", h1 |-> h1, h2 |-> h2, nonce |-> nonce]
    /\ UNCHANGED <<bmp, hcf, hcall, ccf, ccall, ver, sip, trim, cli, lean, gen>>

\* blake2b(h1, nonce)
KdfDeriveFirst ==
    /\ kdf.pc = "first"
    /\ kdf' = [pc |-> "second", h1 |-> kdf.h1, h2 |-> kdf.h2, nonce |-> kdf.nonce,
               keys1 |-> blake2b(kdf.h1, kdf.nonce)]
    /\ UNCHANGED <<bmp, hcf, hcall, ccf, ccall, ver, sip, trim, cli, lean, gen>>

\* blake2b(h2, nonce)
KdfDeriveSecond ==
    /\ kdf.pc = "second"
    /\ kdf' = [pc |-> "done", h1 |-> kdf.h1, h2 |-> kdf.h2, nonce |-> kdf.nonce,
               keys1 |-> kdf.keys1, keys2 |-> blake2b(kdf.h2, kdf.nonce)]
    /\ UNCHANGED <<bmp, hcf, hcall, ccf, ccall, ver, sip, trim, cli, lean, gen>>

NextKdf ==
    \/ \E h1 \in KdfHeaders, h2 \in KdfHeaders, nonce \in 0..MaxKdfNonce :
          KdfStart(h1, h2, U64(nonce))
    \/ KdfDeriveFirst
    \/ KdfDeriveSecond

SpecKdf == InitFinder /\ [][NextKdf]_vars

(***************************************************************************)
(* LeanTrimmer (trimming.rs): leaf removal over an edge list, its edges    *)
(* kept in a HashSet and its degrees in a HashMap.  The iteration order of *)
(* a HashSet or HashMap is arbitrary and differs from run to run.          *)
(***************************************************************************)
\* the orders in which an iteration can hand out the elements of S
RECURSIVE Orderings(_)
Orderings(S) ==
    IF S = {} THEN {<<>>}
    ELSE UNION {{<<x>> \o rest : rest \in Orderings(S \ {x})} : x \in S}

\* Edge::contains and Edge::other (Some(node), for an edge that contains it)
EdgeContains(edge, node) == edge.u = node \/ edge.v = node
EdgeOther(edge, node) == IF edge.u = node THEN edge.v ELSE edge.u

\* the degree NodeBitmap::new counts for `node`: one per endpoint occurrence
RECURSIVE CountEndpoints(_, _, _)
CountEndpoints(edges, node, i) ==
    IF i > Len(edges) THEN 0
    ELSE (IF edges[i].u = node THEN 1 ELSE 0) + (IF edges[i].v = node THEN 1 ELSE 0)
         + CountEndpoints(edges, node, i + 1)

Endpoints(edges) == {edges[i].u : i \in 1..Len(edges)} \cup {edges[i].v : i \in 1..Len(edges)}

RECURSIVE DegreeMap(_, _)
DegreeMap(edges, nodes) ==
    IF nodes = {} THEN EmptyMap
    ELSE (CHOOSE n \in nodes : TRUE) :> CountEndpoints(edges, CHOOSE n \in nodes : TRUE, 1)
         @@ DegreeMap(edges, nodes \ {CHOOSE n \in nodes : TRUE})

\* EdgeBitmap::new and NodeBitmap::new
LeanBitmaps(edges) ==
    [active_edges |-> {edges[i] : i \in 1..Len(edges)},
     original_edges |-> edges,
     node_degrees |-> DegreeMap(edges, Endpoints(edges)),
     active_nodes |-> Endpoints(edges),
     edges_removed |-> 0]

\* NodeBitmap::get_leaf_nodes, as the set the iteration hands out
get_leaf_nodes(b) ==
    {node \in DOMAIN b.node_degrees : b.node_degrees[node] = 1 /\ node \in b.active_nodes}

\* EdgeBitmap::get_edges_for_node
get_edges_for_node(b, node) ==
    SelectSeq(b.original_edges,
              LAMBDA edge : EdgeContains(edge, node) /\ edge \in b.active_edges)

\* NodeBitmap::decrement_degree
decrement_degree(degrees, node) ==
    IF ContainsKey(degrees, node) /\ degrees[node] > 0
    THEN MapInsert(degrees, node, degrees[node] - 1)
    ELSE degrees

\* the `for edge in connected_edges` loop of remove_leaf_edges from edge i
RECURSIVE RemoveConnected(_, _, _, _)
RemoveConnected(b, leaf_node, connected, i) ==
    IF i > Len(connected) THEN b
    ELSE IF connected[i] \in b.active_edges
    THEN RemoveConnected(
             [b EXCEPT !.active_edges = @ \ {connected[i]},
                       !.node_degrees = decrement_degree(@, EdgeOther(connected[i], leaf_node)),
                       !.edges_removed = @ + 1],
             leaf_node, connected, i + 1)
    ELSE RemoveConnected(b, leaf_node, connected, i + 1)

\* NodeBitmap::remove_node
remove_node(b, node) ==
    [b EXCEPT !.active_nodes = @ \ {node},
              !.node_degrees = MapRemove(@, node)]

\* remove_leaf_edges over the leaves in the order handed out, from leaf i
RECURSIVE remove_leaf_edges(_, _, _)
remove_leaf_edges(b, leaf_nodes, i) ==
    IF i > Len(leaf_nodes) THEN b
    ELSE remove_leaf_edges(
             remove_node(RemoveConnected(b, leaf_nodes[i],
                                         get_edges_for_node(b, leaf_nodes[i]), 1),
                         leaf_nodes[i]),
             leaf_nodes, i + 1)

MaxLeanRounds == 2       \* rounds is in 0..MaxLeanRounds

\* trim_edges(edges, rounds) on a new LeanTrimmer, up to the first test of
\* the `for round` loop; run 1, or run 2 on the same arguments
LeanCall(edges, rounds, run, first) ==
    IF edges = <<>>
    THEN [pc |-> "returned", edges |-> edges, rounds |-> rounds, run |-> run,
          first |-> first, result |-> <<>>]
    ELSE [pc |-> "round", edges |-> edges, rounds |-> rounds, run |-> run,
          first |-> first, round |-> 0, b |-> LeanBitmaps(edges)]

LeanTrimEdges(edges, rounds) ==
    /\ lean.pc = "idle"
    /\ lean' = LeanCall(edges, rounds, 1, <<>>)
    /\ UNCHANGED <<bmp, hcf, hcall, ccf, ccall, ver, sip, trim, cli, kdf, gen>>

\* one iteration of the `for round` loop that does not break
LeanRound ==
    /\ lean.pc = "round"
    /\ lean.round < lean.rounds
    /\ get_leaf_nodes(lean.b) # {}
    /\ \E leaf_nodes \in Orderings(get_leaf_nodes(lean.b)) :
          /\ remove_leaf_edges([lean.b EXCEPT !.edges_removed = 0], leaf_nodes, 1).edges_removed # 0
          /\ lean' = [lean EXCEPT
                        !.round = @ + 1,
                        !.b = remove_leaf_edges([lean.b EXCEPT !.edges_removed = 0],
                                                leaf_nodes, 1)]
    /\ UNCHANGED <<bmp, hcf, hcall, ccf, ccall, ver, sip, trim, cli, kdf, gen>>

\* the loop ends, by its bound or by a break (no leaf, or no edge removed):
\* get_surviving_edges collects the HashSet in the order it iterates
LeanReturn ==
    /\ lean.pc = "round"
    /\ \/ ~(lean.round < lean.rounds)
       \/ get_leaf_nodes(lean.b) = {}
       \/ \E leaf_nodes \in Orderings(get_leaf_nodes(lean.b)) :
             remove_leaf_edges([lean.b EXCEPT !.edges_removed = 0], leaf_nodes, 1).edges_removed = 0
    /\ \E surviving_edges \in Orderings(lean.b.active_edges) :
          lean' = [pc |-> "returned", edges |-> lean.edges, rounds |-> lean.rounds,
                   run |-> lean.run, first |-> lean.first, result |-> surviving_edges]
    /\ UNCHANGED <<bmp, hcf, hcall, ccf, ccall, ver, sip, trim, cli, kdf, gen>>

\* the same trim_edges call once more, on a new LeanTrimmer
LeanTrimEdgesAgain ==
    /\ lean.pc = "returned"
    /\ lean.run = 1
    /\ lean' = LeanCall(lean.edges, lean.rounds, 2, lean.result)
    /\ UNCHANGED <<bmp, hcf, hcall, ccf, ccall, ver, sip, trim, cli, kdf, gen>>

NextLean ==
    \/ \E edges \in SmallLists, rounds \in 0..MaxLeanRounds : LeanTrimEdges(edges, rounds)
    \/ LeanRound
    \/ LeanReturn
    \/ LeanTrimEdgesAgain

SpecLean == InitFinder /\ [][NextLean]_vars

(***************************************************************************)
(* Bitmap (bitmap.rs): a Vec<u64> buffer, modelled as the set of the        *)
(* positions of its set bits (bit b of word w is position 64 * w + b), and *)
(* a size in bits.                                                         *)
(***************************************************************************)
BITMAP_UNIT_WIDTH == 64

\* Bitmap::new(size): ceil(size / 64) words, all zero
Bitmap_new(size) ==
    [pc |-> "built",
     buffer_len |-> (size + BITMAP_UNIT_WIDTH - 1) \div BITMAP_UNIT_WIDTH,
     buffer |-> {},
     size |-> size]

\* set_bit(index): buffer[index / 64] |= 1 << (index % 64) if index < size
set_bit(b, index) ==
    IF index < b.size THEN [b EXCEPT !.buffer = @ \cup {index}] ELSE b

\* clear_bit(index): buffer[index / 64] &= !(1 << (index % 64)) if index < size
clear_bit(b, index) ==
    IF index < b.size THEN [b EXCEPT !.buffer = @ \ {index}] ELSE b

\* is_bit_set(index)
is_bit_set(b, index) ==
    IF index < b.size THEN index \in b.buffer ELSE FALSE

\* set_all_bits: every word of the buffer becomes u64::MAX
set_all_bits(b) ==
    [b EXCEPT !.buffer = 0..(b.buffer_len * BITMAP_UNIT_WIDTH - 1)]

\* clear_all_bits: every word of the buffer becomes 0
clear_all_bits(b) == [b EXCEPT !.buffer = {}]

\* count_set_bits: the sum of count_ones over the words
count_set_bits(b) == Cardinality(b.buffer)

MaxBitmapSize == 4       \* sizes 0..MaxBitmapSize, and the sizes around a word
MaxBitmapIndex == 5      \* indices 0..MaxBitmapIndex, and those around a word

BitmapSizes ==
    (0..MaxBitmapSize) \cup {BITMAP_UNIT_WIDTH, BITMAP_UNIT_WIDTH + 1}
BitmapIndices ==
    (0..MaxBitmapIndex)
        \cup {BITMAP_UNIT_WIDTH - 1, BITMAP_UNIT_WIDTH, BITMAP_UNIT_WIDTH + 1}

BmpNew(size) ==
    /\ bmp.pc = "idle"
    /\ bmp' = Bitmap_new(size)
    /\ UNCHANGED <<hcf, hcall, ccf, ccall, ver, sip, trim, cli, kdf, lean, gen>>

BmpSetBit(index) ==
    /\ bmp.pc = "built"
    /\ bmp' = set_bit(bmp, index)
    /\ UNCHANGED <<hcf, hcall, ccf, ccall, ver, sip, trim, cli, kdf, lean, gen>>

BmpClearBit(index) ==
    /\ bmp.pc = "built"
    /\ bmp' = clear_bit(bmp, index)
    /\ UNCHANGED <<hcf, hcall, ccf, ccall, ver, sip, trim, cli, kdf, lean, gen>>

BmpSetAllBits ==
    /\ bmp.pc = "built"
    /\ bmp' = set_all_bits(bmp)
    /\ UNCHANGED <<hcf, hcall, ccf, ccall, ver, sip, trim, cli, kdf, lean, gen>>

BmpClearAllBits ==
    /\ bmp.pc = "built"
    /\ bmp' = clear_all_bits(bmp)
    /\ UNCHANGED <<hcf, hcall, ccf, ccall, ver, sip, trim, cli, kdf, lean, gen>>

(***************************************************************************)
(* The specification of the Bitmap: new, then any sequence of set_bit,     *)
(* clear_bit, set_all_bits and clear_all_bits.                             *)
(***************************************************************************)
InitBitmap == InitFinder

NextBitmap ==
    \/ \E size \in BitmapSizes : BmpNew(size)
    \/ \E index \in BitmapIndices : BmpSetBit(index)
    \/ \E index \in BitmapIndices : BmpClearBit(index)
    \/ BmpSetAllBits
    \/ BmpClearAllBits

SpecBitmap == InitBitmap /\ [][NextBitmap]_vars

(***************************************************************************)
(* Properties of the cycle finders.                                        *)
(***************************************************************************)
StrictlyAscending(s) == \A i \in 1..(Len(s) - 1) : U32Less(s[i], s[i + 1])
Values(s) == {s[i] : i \in 1..Len(s)}
\* the edge indices of a flat array [edge_index, node_u, node_v, ...]
SuppliedIndices(flat, number_of_edges) ==
    {flat[EDGE_NUMBER_OF_COMPONENTS * k + 1] : k \in 0..(number_of_edges - 1)}

\* C1: HashCycleFinder::find_cycle, given the 42 survivors (i, i, (i+1) mod 42)
\* in ascending index order, returns the solution [0, 1, ..., 41].
C1_SyntheticCycleIsReported ==
    (hcall.pc = "done" /\ hcall.edges = create_synthetic_42_cycle_graph)
        => hcall.result = OkSome([i \in 1..SOLUTION_SIZE |-> i - 1])

\* C3: a solution reported by a cycle finder holds 42 strictly ascending
\* values, each the edge index of a supplied survivor.
C3_ReportedSolutionIsWellFormed ==
    /\ (hcall.pc = "done" /\ hcall.result.some)
          => /\ Len(hcall.result.value) = SOLUTION_SIZE
             /\ StrictlyAscending(hcall.result.value)
             /\ Values(hcall.result.value)
                   \subseteq SuppliedIndices(hcall.cpp_edges, hcall.number_of_edges)
    /\ (ccall.pc = "done" /\ ccall.result.found)
          => /\ Len(ccall.solution) = SOLUTION_SIZE
             /\ StrictlyAscending(ccall.solution)
             /\ Values(ccall.solution)
                   \subseteq SuppliedIndices(ccall.edges, ccall.number_of_edges)

(***************************************************************************)
(* Properties of the cycle verifier, in its own reading of an edge list as *)
(* an undirected graph on the values of u and v.                           *)
(***************************************************************************)
\* number of endpoints at vertex x among the edges at the positions P
Degree(edges, P, x) ==
    Cardinality({i \in P : edges[i].u = x}) + Cardinality({i \in P : edges[i].v = x})

\* the positions left after repeatedly dropping every edge with an endpoint
\* of degree one: every cycle of the graph lies inside them
RECURSIVE TwoCore(_, _)
TwoCore(edges, P) ==
    LET pendant == {i \in P : Degree(edges, P, edges[i].u) <= 1
                              \/ Degree(edges, P, edges[i].v) <= 1}
    IN IF pendant = {} THEN P ELSE TwoCore(edges, P \ pendant)

\* a sufficient condition for an edge list to contain no 42-cycle
ContainsNo42Cycle(edges) ==
    \/ Len(edges) < SOLUTION_SIZE
    \/ Cardinality(TwoCore(edges, 1..Len(edges))) < SOLUTION_SIZE

Incident(e1, e2) == e1.u = e2.u \/ e1.u = e2.v \/ e1.v = e2.u \/ e1.v = e2.v

\* c is one simple cycle of 42 distinct edges of the list
IsSimple42Cycle(c, edges) ==
    /\ Len(c) = SOLUTION_SIZE
    /\ \A i \in 1..Len(c) :
          Cardinality({j \in 1..Len(c) : c[j] = c[i]})
             <= Cardinality({j \in 1..Len(edges) : edges[j] = c[i]})
    /\ \A i \in 1..Len(c) :
          /\ Degree(c, 1..Len(c), c[i].u) = 2
          /\ Degree(c, 1..Len(c), c[i].v) = 2
          /\ Incident(c[i], c[(i % Len(c)) + 1])

\* C2: verify_cycle on the synthetic 42-cycle, alone or with extra edges that
\* do not touch it, returns Ok(Some(c)) with 42 edges.
C2_SyntheticCycleIsFound ==
    (ver.pc = "done"
       /\ ver.edges \in {create_synthetic_42_cycle_graph,
                         synthetic_42_cycle_and_far_edge, create_test_42_cycle})
        => (ver.result.some /\ Len(ver.result.value) = SOLUTION_SIZE)

\* C4: a cycle returned by verify_cycle is 42 distinct edges of the list that
\* form one simple cycle of length 42.
C4_ReturnedCycleIsSimple ==
    (ver.pc = "done" /\ ver.result.some)
        => IsSimple42Cycle(ver.result.value, ver.edges)

\* C5: on an edge list that contains no 42-cycle, verify_cycle and
\* HashCycleFinder::find_cycle return Ok(None).
C5_NoCycleGivesOkNone ==
    /\ (ver.pc = "done" /\ ContainsNo42Cycle(ver.edges)) => ver.result = OkNone
    /\ (hcall.pc = "done" /\ ContainsNo42Cycle(hcall.edges)) => hcall.result = OkNone

(***************************************************************************)
(* Properties of the SipHash-2-4 node routines.                            *)
(***************************************************************************)
\* x < 2^bits for a u64 x
Below2Pow(x, bits) ==
    \A i \in 1..4 :
        LET room == bits - LimbBits * (i - 1)
        IN IF room <= 0 THEN x[i] = 0
           ELSE IF room >= LimbBits THEN TRUE
           ELSE x[i] < Pow2(room)

\* C7: hash_nonce, siphash24 and siphash24_single return the same node for
\* the same keys, nonce and edge_bits.
C7_SipHashRoutinesAgree ==
    (sip.pc = "run" /\ sip.exact.returned /\ sip.bitmap.returned /\ sip.single.returned)
        => (sip.exact.node = sip.bitmap.node /\ sip.exact.node = sip.single.node)

\* C8: for every edge_bits in [10, 32] the node returned by hash_nonce and by
\* siphash24 is in [0, 2^edge_bits).
C8_NodeIsBelowTwoToEdgeBits ==
    /\ (sip.pc = "run" /\ sip.exact.returned)
          => Below2Pow(sip.exact.node, sip.edge_bits)
    /\ (sip.pc = "run" /\ sip.bitmap.returned)
          => Below2Pow(sip.bitmap.node, sip.edge_bits)

(***************************************************************************)
(* Properties of the trimmers and of the hand-over to the finder.          *)
(***************************************************************************)
\* the links of every chain of a newest-connections map
Links(m) == UNION {{m[k][j] : j \in 1..Len(m[k])} : k \in DOMAIN m}

\* C6: every edge index the finder stores in a chain link for a survivor of
\* trim_edges is the oracle edge index e of that survivor: the link's node is
\* the survivor's u (its v in the V chains) and (hash(keys, 2e),
\* hash(keys, 2e + 1)) is the survivor's (u, v)
C6_FinderStoresOracleEdgeIndex ==
    (trim.pc = "done" /\ hcall.pc # "idle") =>
        /\ \A link \in Links(hcf.u_newest_connections) :
              \E i \in 1..Len(trim.result.value) :
                 /\ AsU32(trim.result.value[i].u) = LinkNode(link)
                 /\ TrimHash(trim.t, 2 * LinkEdgeIndex(link)) = trim.result.value[i].u
                 /\ TrimHash(trim.t, 2 * LinkEdgeIndex(link) + 1) = trim.result.value[i].v
        /\ \A link \in Links(hcf.v_newest_connections) :
              \E i \in 1..Len(trim.result.value) :
                 /\ AsU32(trim.result.value[i].v) = LinkNode(link)
                 /\ TrimHash(trim.t, 2 * LinkEdgeIndex(link)) = trim.result.value[i].u
                 /\ TrimHash(trim.t, 2 * LinkEdgeIndex(link) + 1) = trim.result.value[i].v

\* C9: every step of a trim_edges call, of either trimmer, leaves the set of
\* set bits of the edges bitmap a subset of what it was: the population
\* never increases and a cleared bit is never set again
C9_EdgesBitmapOnlyShrinks ==
    [][(trim.pc \notin {"idle", "panicked"})
          => trim'.t.edges_bitmap \subseteq trim.t.edges_bitmap]_vars

\* two rounds of an ExactTrimmer have each cleared some bits and left others
C9_TwoSweepsClearedSomeBits ==
    /\ trim.pc = "round"
    /\ trim.t.kind = "exact"
    /\ Len(trim.removed) >= 2
    /\ trim.removed[1] > 0
    /\ trim.removed[2] > 0
    /\ trim.t.edges_bitmap # {}

\* C10: if a round of a trim_edges call removes zero edges, every later round
\* of the call removes zero edges
C10_NoRemovalAfterARoundRemovedNone ==
    (trim.pc \notin {"idle", "panicked"}) =>
        \A i, j \in 1..Len(trim.removed) :
            (i < j /\ trim.removed[i] = 0) => trim.removed[j] = 0

\* a bitmap is modelled up to position 2^31 - 1: every modelled position is
\* below 2^bits for bits >= 31, and no modelled bitmap holds 2^bits bits then
PositionBelow2Pow(p, bits) == bits >= 31 \/ p < Pow2(bits)
HoldsAll2PowBits(S, bits) == bits < 31 /\ S = 0..(Pow2(bits) - 1)

\* C11: right after its initialization by trim_edges the edges bitmap has
\* exactly the bits [0, 2^edge_bits) set, and in every later state of the
\* call no bit at a position >= 2^edge_bits is set.
C11_EdgesBitmapCoversExactlyTheEdges ==
    (trim.pc \notin {"idle", "panicked"}) =>
        /\ \A p \in trim.t.edges_bitmap : PositionBelow2Pow(p, trim.t.edge_bits)
        /\ (trim.pc = "round" /\ trim.steps = <<>>)
              => HoldsAll2PowBits(trim.t.edges_bitmap, trim.t.edge_bits)

\* the steps of a full round: U mark, U sweep, V mark, V sweep
FullRound ==
    <<"trim_edges_step_one", "trim_edges_step_two",
      "trim_edges_step_three", "trim_edges_step_four">>

\* C12: each of the rounds of trim_edges done so far called, in this order,
\* the U mark, the U sweep, the V mark and the V sweep.
C12_EveryRoundMarksAndSweepsBothPartitions ==
    trim.pc = "round" =>
        /\ Len(trim.steps) = Len(FullRound) * trim.round
        /\ \A i \in 1..Len(trim.steps) :
              trim.steps[i] = FullRound[((i - 1) % Len(FullRound)) + 1]

\* C13: a sweep step of BitmapTrimmer (step two on U in round 0, step four on
\* V afterwards) leaves bit e set iff it was set and the nodes bitmap has the
\* bit at (n xor 1) set, n the endpoint of edge e on the swept partition.
C13_BitmapSweepKeepsExactlyThePairedEdges ==
    [][(trim.pc = "sweep" /\ trim.t.kind = "bitmap") =>
          trim'.t.edges_bitmap =
              {e \in trim.t.edges_bitmap :
                  IsNodeSet(trim.t,
                            Xor1(ToInt(siphash24(trim.t.keys, trim.t.edge_bits,
                                                 U64(2 * e + (IF trim.round = 0 THEN 0
                                                              ELSE 1))))))}]_vars

\* C14: the list trim_edges returns has one entry per set bit of the final
\* edges bitmap, in ascending order of bit position e, the entry of bit e
\* being (hash(keys, 2e), hash(keys, 2e+1)).
C14_OneEntryPerSetBitInAscendingOrder ==
    trim.pc = "done" =>
        /\ Len(trim.result.value) = Cardinality(trim.t.edges_bitmap)
        /\ \A i \in 1..Len(trim.result.value) :
              /\ i <= Cardinality(trim.t.edges_bitmap)
              /\ trim.result.value[i]
                    = Edge(TrimHash(trim.t, 2 * SetToSeq(trim.t.edges_bitmap)[i]),
                           TrimHash(trim.t, 2 * SetToSeq(trim.t.edges_bitmap)[i] + 1))

(***************************************************************************)
(* Properties of the validation routines, of main and of hash_header.      *)
(***************************************************************************)
\* C15: every edge_bits validation routine returns an error for every
\* edge_bits below 10 or above 32 and succeeds for every edge_bits in [10, 32].
C15_ValidationAcceptsExactlyTenToThirtyTwo ==
    (cli.pc = "returned" /\ cli.routine # "main") =>
        (cli.ok <=> (cli.edge_bits >= 10 /\ cli.edge_bits <= 32))

\* C16: main does not get to its key derivation with a configuration whose
\* trimming_rounds is 0.
C16_ZeroTrimmingRoundsIsRejected ==
    cli.pc = "deriving_keys" => cli.config.trimming_rounds > 0

\* C20: hash_header returns one edge per edge index i in [0, 2^edge_bits),
\* and every returned edge (u, v) is, for some i, the hash of nonce 2i and the
\* hash of nonce 2i+1, in this order, each reduced to edge_bits bits.
C20_EveryEdgeIsTheOracleEdgeOfAnIndex ==
    (gen.pc = "done" /\ gen.ok) =>
        /\ Len(gen.edges) = gen.edge_count
        /\ \A n \in 1..Len(gen.edges) :
              \E i \in 0..(gen.edge_count - 1) :
                 /\ gen.edges[n].u
                       = ToInt(MaskBits(HeaderSiphash24(gen.k, gen.header.bytes,
                                                        gen.header.nonce, 2 * i),
                                        gen.edge_bits))
                 /\ gen.edges[n].v
                       = ToInt(MaskBits(HeaderSiphash24(gen.k, gen.header.bytes,
                                                        gen.header.nonce, 2 * i + 1),
                                        gen.edge_bits))

(***************************************************************************)
(* Properties of the key derivation and of repeated runs.                  *)
(***************************************************************************)
\* C17: running the core twice on the same input gives the same survivor
\* list, in the same order, also for LeanTrimmer.
C17_SecondRunGivesTheSameSurvivorList ==
    (lean.pc = "returned" /\ lean.run = 2) => lean.result = lean.first

\* C19: for every nonce and every two different headers h1 and h2,
\* blake2b(h1, nonce) differs from blake2b(h2, nonce).
C19_DifferentHeadersGiveDifferentKeys ==
    (kdf.pc = "done" /\ kdf.h1 # kdf.h2) => kdf.keys1 # kdf.keys2

\* the results find_cycle can return from the state of the call `call` on
\* the finder f (a solution is read in the arbitrary order of a HashMap)
RECURSIVE HcfResults(_, _)
HcfResultsAfter(r, call) ==
    IF r.found
    THEN {OkSome(SortAsc(s)) : s \in get_solution_from_visited_nodes(r.f, call.solution, r.last)}
    ELSE HcfResults(r.f, [call EXCEPT !.node_connections_index = @ + 2,
                                      !.edges_index = @ + EDGE_NUMBER_OF_COMPONENTS])
HcfResults(f, call) ==
    IF ~(call.node_connections_index < call.number_of_edges * 2) THEN {OkNone}
    ELSE UNION {HcfResultsAfter(r, call) : r \in {HcfEdgeOutcome(f, call)}}

\* C18: on a reused ExactTrimmer and a reused HashCycleFinder every attempt
\* after the first returns what it returns on a newly constructed value (the
\* trimmer's list is compared when trim_edges returns it, before the finder
\* is called); the trimmer starts the attempt with the edges bitmap of a new
\* trimmer and sweeps its first round with the nodes bitmap of a new trimmer,
\* and the finder starts with its chains, visited maps and root node reset.
C18_ReusedValuesGiveTheResultsOfNewOnes ==
    /\ (trim.pc = "done" /\ trim.attempt > 1 /\ hcall.pc = "waiting") =>
          \A new \in {Trimmer_new(trim.t.kind, trim.t.keys, trim.t.edge_bits)} :
              trim.result.value \in trim_edges(new, trim.trimming_rounds)
    /\ (trim.pc = "round" /\ trim.attempt > 1 /\ trim.steps = <<>>) =>
          \A new \in {Trimmer_new(trim.t.kind, trim.t.keys, trim.t.edge_bits)} :
              trim.t.edges_bitmap = initialize_edges_bitmap(new).edges_bitmap
    /\ (trim.pc = "sweep" /\ trim.attempt > 1 /\ trim.round = 0) =>
          \A new \in {Trimmer_new(trim.t.kind, trim.t.keys, trim.t.edge_bits)} :
              \A started \in {initialize_edges_bitmap(new)} :
                  \A marked \in {trim_edges_step_one(started)} :
                      trim.t.nodes_bitmap = marked.nodes_bitmap
    /\ (hcall.pc = "loop" /\ hcall.attempt > 1 /\ hcall.node_connections_index = 0) =>
          hcf = initialize_thread_local_global_variables(HashCycleFinder_new)
    /\ (hcall.pc = "done" /\ hcall.attempt > 1) =>
          \A call \in {HcfCall(hcall.edges, 1)} :
              hcall.result \in HcfResults(initialize_thread_local_global_variables(HashCycleFinder_new),
                                          call)

\* a second attempt is over whose trimmer started with marks of the first
\* attempt in its nodes bitmap and whose finder had chains of the first
C18_SecondAttemptOnUsedValuesIsOver ==
    /\ trim.pc = "done" /\ trim.attempt = 2 /\ trim.trimming_rounds > 0
    /\ trim.stale_nodes # {}
    /\ trim.result.value # <<>>
    /\ hcall.pc = "done" /\ hcall.attempt = 2

(***************************************************************************)
(* Properties of the trimmer constructors.                                 *)
(***************************************************************************)
\* the values of a modelled trimmer are below 2^31: no modelled value is
\* 2^bits for bits >= 31
IsTwoPow(n, bits) == bits < 31 /\ n = Pow2(bits)

\* C21: the constructor of a trimmer does not overflow, and the trimmer it
\* builds has number_of_edges = 2^edge_bits, node_mask = 2^edge_bits - 1 and
\* bitmaps of the words that hold 2^edge_bits bits, up to edge_bits = 32.
C21_ConstructorComputesTwoPowEdgeBits ==
    /\ trim.pc # "panicked"
    /\ (trim.pc # "idle") =>
          /\ IsTwoPow(trim.t.number_of_edges, trim.t.edge_bits)
          /\ IsTwoPow(trim.t.node_mask + 1, trim.t.edge_bits)
          /\ trim.t.edges_bitmap_len * EdgesWordBits >= trim.t.number_of_edges
          /\ IsTwoPow(Cardinality(initialize_edges_bitmap(trim.t).edges_bitmap),
                      trim.t.edge_bits)

(***************************************************************************)
(* Properties of the rounds of ExactTrimmer::trim_edges.                   *)
(***************************************************************************)
\* C30: a trim_edges call of an ExactTrimmer with trimming_rounds >= 2
\* returns the list that the call with trimming_rounds = 2 returns: round 0
\* marks and sweeps U, every later round marks and sweeps V, and a V sweep
\* after the first V sweep removes no edge.
C30_RoundsAfterTheSecondChangeNothing ==
    (trim.pc \in {"round", "sweep", "done"} /\ trim.t.kind = "exact") =>
        /\ \A i \in 1..Len(trim.steps) :
              trim.steps[i] = IF i <= 2 THEN FullRound[i] ELSE FullRound[2 + ((i - 1) % 2) + 1]
        /\ \A i \in 1..Len(trim.removed) : i > 2 => trim.removed[i] = 0
        /\ (trim.pc = "done" /\ trim.trimming_rounds >= 2) =>
              \A new \in {Trimmer_new(trim.t.kind, trim.t.keys, trim.t.edge_bits)} :
                  trim.result.value \in trim_edges(new, 2)

\* a call with three rounds is over whose U sweep and first V sweep have
\* each removed edges and left others
C30_ThirdRoundAfterTwoRemovingRounds ==
    /\ trim.pc = "done"
    /\ trim.t.kind = "exact"
    /\ trim.trimming_rounds = 3
    /\ trim.removed[1] > 0
    /\ trim.removed[2] > 0
    /\ trim.result.value # <<>>

(***************************************************************************)
(* Properties of the Bitmap.                                               *)
(***************************************************************************)
\* C27: after Bitmap::new(size) and any sequence of set_bit, clear_bit,
\* set_all_bits and clear_all_bits no bit of the buffer at a position >= size
\* is set, and count_set_bits() is the number of the indices i < size with
\* is_bit_set(i).
C27_NoBitBeyondSizeAndCountIsExact ==
    (bmp.pc = "built") =>
        /\ \A p \in bmp.buffer : p < bmp.size
        /\ count_set_bits(bmp)
              = Cardinality({i \in 0..(bmp.size - 1) : is_bit_set(bmp, i)})

(***************************************************************************)
(* Properties of the searches of the cycle finders.                        *)
(***************************************************************************)
\* C29: on a survivor list whose nodes and edge indices are small
\* non-negative u32 values, no `+ 1` and no `- 1` of CppCycleFinder wraps:
\* the build with overflow checks, which panics exactly where the other
\* build wraps, never panics.
C29_NoAdditionOrSubtractionWraps ==
    (ccall.pc = "done" /\ ccall.overflow_checks) => ~ccall.result.panicked

\* the edge indices of the first k edges of the flat array whose node at
\* component `component` (2: U, 3: V) is n, the last inserted first
RECURSIVE NewestFirst(_, _, _, _)
NewestFirst(flat, k, component, n) ==
    IF k = 0 THEN <<>>
    ELSE (IF flat[EDGE_NUMBER_OF_COMPONENTS * (k - 1) + component] = n
          THEN <<flat[EDGE_NUMBER_OF_COMPONENTS * (k - 1) + 1]>> ELSE <<>>)
         \o NewestFirst(flat, k - 1, component, n)

\* the map `newest` holds the chains of the first k edges of the flat array
\* on the partition of `component`
ChainsOfInserted(newest, flat, k, component) ==
    /\ DOMAIN newest
          = {flat[EDGE_NUMBER_OF_COMPONENTS * j + component] : j \in 0..(k - 1)}
    /\ \A n \in DOMAIN newest :
          /\ \A p \in 1..Len(newest[n]) : LinkNode(newest[n][p]) = n
          /\ [p \in 1..Len(newest[n]) |-> LinkEdgeIndex(newest[n][p])]
                = NewestFirst(flat, k, component, n)

\* the number of edges a call has inserted: those before the current one,
\* and the current one too when the loop was left at it
InsertedEdges(call, left_at_edge) ==
    (call.node_connections_index \div 2) + (IF left_at_edge THEN 1 ELSE 0)

\* C22: after the insertion of any prefix of the survivor list, on each
\* partition of each finder, the keys of the newest-connection map are the
\* nodes of the inserted edges on that partition, every link of a node's
\* chain stores that node, and the chain lists the indices of the inserted
\* edges at that node, each once, from the last inserted to the first.
C22_ChainsListTheInsertedEdges ==
    /\ (hcall.pc \in {"loop", "done"}) =>
          \A k \in {InsertedEdges(hcall, hcall.pc = "done" /\ hcall.result.some)} :
              /\ ChainsOfInserted(hcf.u_newest_connections, hcall.cpp_edges, k, 2)
              /\ ChainsOfInserted(hcf.v_newest_connections, hcall.cpp_edges, k, 3)
    /\ (ccall.pc \in {"loop", "done"}) =>
          \A k \in {InsertedEdges(ccall, ccall.pc = "done"
                                             /\ (ccall.result.found \/ ccall.result.panicked))} :
              /\ ChainsOfInserted(ccf.cuckatoo_u_newest_node_connections, ccall.edges, k, 2)
              /\ ChainsOfInserted(ccf.cuckatoo_v_newest_node_connections, ccall.edges, k, 3)

\* both finders have inserted three edges of one list, two of them at one U
\* node and two of them at one V node
C22_TwoLinkChainsOnBothPartitions ==
    /\ hcall.pc = "done"
    /\ \E n \in DOMAIN hcf.u_newest_connections : Len(hcf.u_newest_connections[n]) = 2
    /\ \E n \in DOMAIN hcf.v_newest_connections : Len(hcf.v_newest_connections[n]) = 2
    /\ ccall.pc = "loop" /\ ccall.node_connections_index = 6
    /\ \E n \in DOMAIN ccf.cuckatoo_u_newest_node_connections :
          Len(ccf.cuckatoo_u_newest_node_connections[n]) = 2
    /\ \E n \in DOMAIN ccf.cuckatoo_v_newest_node_connections :
          Len(ccf.cuckatoo_v_newest_node_connections[n]) = 2

\* C23: every call of a search helper of either finder that returned false
\* left both visited maps, both newest-connection maps and the root node
\* exactly as they were when it was called.
C23_AHelperThatFailsRestoresTheFinder ==
    /\ hcf.watch.framed
    /\ ccf.watch.framed

\* C24: at no time of a search of either finder is a pair index a key of
\* both visited maps.
C24_NoPairIndexInBothVisitedMaps ==
    /\ hcf.watch.shared = {}
    /\ ccf.watch.shared = {}

\* the number of entries of a map
Entries(m) == Cardinality(DOMAIN m)

\* C25: at no time of a search of either finder has a visited map more than
\* 21 entries, and when a solution is written into the solution array the U
\* map has 21 entries and the V map 20 or 21.
C25_VisitedMapsFitTheSolutionArray ==
    /\ hcf.watch.max_u <= SOLUTION_SIZE \div 2
    /\ hcf.watch.max_v <= SOLUTION_SIZE \div 2
    /\ ccf.watch.max_u <= SOLUTION_SIZE \div 2
    /\ ccf.watch.max_v <= SOLUTION_SIZE \div 2
    /\ (hcall.pc = "done" /\ hcall.result.some) =>
          /\ Entries(hcf.u_visited_pairs) = SOLUTION_SIZE \div 2
          /\ Entries(hcf.v_visited_pairs) \in {(SOLUTION_SIZE \div 2) - 1, SOLUTION_SIZE \div 2}
    /\ (ccall.pc = "done" /\ ccall.result.found) =>
          /\ Entries(ccf.cuckatoo_u_visited_node_pairs) = SOLUTION_SIZE \div 2
          /\ Entries(ccf.cuckatoo_v_visited_node_pairs)
                \in {(SOLUTION_SIZE \div 2) - 1, SOLUTION_SIZE \div 2}

\* C26: every search of either finder ends, after at most 21 iterations of
\* the straight-through loop, with helper calls of cycle_size at most 41
\* only, and with at most 42 helper calls open at one time.
C26_SearchesAreBounded ==
    \A w \in {hcf.watch, ccf.watch} :
        /\ w.loops <= SOLUTION_SIZE \div 2
        /\ \A c \in w.calls : c[2] <= SOLUTION_SIZE - 1
        /\ w.max_depth <= SOLUTION_SIZE

\* C28: every search of HashCycleFinder leaves the straight-through loop in
\* its first iteration, with cycle_size 1; every call of
\* search_node_connections_second_partition returns false and
\* search_node_connections_first_partition is not called; find_cycle
\* returns Ok(None).
C28_NoSearchPassesItsFirstIteration ==
    /\ hcf.watch.loops <= 1
    /\ hcf.watch.cycle_size <= 1
    /\ \A c \in hcf.watch.calls : c[1] = "second_partition"
    /\ \A r \in hcf.watch.returns : r = <<"second_partition", FALSE>>
    /\ (hcall.pc = "done") => hcall.result = OkNone

\* a failed call of a helper of each finder has returned
C23_HelpersOfBothFindersHaveFailed ==
    /\ <<"second_partition", FALSE>> \in hcf.watch.returns
    /\ <<"first_partition", FALSE>> \in ccf.watch.returns
    /\ <<"second_partition", FALSE>> \in ccf.watch.returns

\* the search of the 42-cycle has written its solution
C25_SolutionWrittenFromTheVisitedMaps ==
    /\ ccall.pc = "done"
    /\ ccall.result.found
    /\ Entries(ccf.cuckatoo_u_visited_node_pairs) = 21
    /\ Entries(ccf.cuckatoo_v_visited_node_pairs) = 20

\* a search has left the loop in its 21st iteration without a solution
C26_ASearchOfTwentyOneIterations ==
    /\ ccall.pc = "loop"
    /\ ccf.watch.loops = 21
    /\ ccf.watch.cycle_size = 41

\* a search of HashCycleFinder whose helper calls all failed has ended the
\* call
C28_FindCycleEndsAfterFailedHelpers ==
    /\ hcall.pc = "done"
    /\ hcf.watch.loops = 1
    /\ <<"second_partition", FALSE>> \in hcf.watch.returns
====
